---- MODULE Spec2Model ----
(***************************************************************************)
(* A model of youtube_rss: the JSON document store (db.py), the            *)
(* reconciliation of a remote feed into a Feed's entries and the batch     *)
(* refresh that runs one worker thread per channel inside a child process  *)
(* (youtube_rss.py, utils.py).                                             *)
(***************************************************************************)
EXTENDS Integers, Sequences, FiniteSets, TLC

(***************************************************************************)
(* Bounds of the model.                                                    *)
(***************************************************************************)
\* longest remote feed delivered to one reconciliation in SpecRecon
MaxRemote == 3
\* longest remote feed delivered to one worker thread of a batch refresh
MaxFetch == 2

(***************************************************************************)
(* Values.                                                                 *)
(***************************************************************************)
VideoIds == {"v1", "v2", "v3"}
\* what a remote feed can say about one video: link, title, thumbnail url
Contents == { [link |-> "http://l1", title |-> "t1", url |-> "http://u1"],
              [link |-> "http://l2", title |-> "t2", url |-> "http://u2"] }
\* parser.get_rss_entries_from_channel_id returns a list; the caller also
\* provides for None
None == [none |-> TRUE]
RssResult(entries) == [entries |-> entries]

\* one entry of feedparser's result, as far as the program reads it
\* (feedparser_dict["id"], ["link"], ["title"], ["media_thumbnail"][0]["url"])
RemoteEntries ==
    { [id |-> v, link |-> c.link, title |-> c.title,
       media_thumbnail |-> << [url |-> c.url] >>] : v \in VideoIds, c \in Contents }

RECURSIVE SeqsUpTo(_, _)
SeqsUpTo(S, n) ==
    IF n = 0 THEN { <<>> }
    ELSE LET shorter == SeqsUpTo(S, n - 1)
         IN  shorter \cup { Append(s, x) : s \in { t \in shorter : Len(t) = n - 1 }, x \in S }

(***************************************************************************)
(* Record model (db.py).                                                   *)
(***************************************************************************)
\* the dataclass FeedEntry; cls stands for the object's class
FeedEntry(video_id, link, title, thumbnail, seen) ==
    [cls |-> "FeedEntry", video_id |-> video_id, link |-> link, title |-> title,
     thumbnail |-> thumbnail, seen |-> seen]

\* the dataclass Feed
Feed(channel_id, title, entries) ==
    [cls |-> "Feed", channel_id |-> channel_id, title |-> title, entries |-> entries]

\* ITable.update without the copy of one field: a field of self is left as it was
UpdateKeepsTitle(self, other) ==
    [key \in DOMAIN self |-> IF key \in {"cls", "title"} THEN self[key] ELSE other[key]]

\* ITable.update: every attribute of self is overwritten by other's
update(self, other) ==
    [key \in DOMAIN self |-> IF key = "cls" THEN self[key] ELSE other[key]]

(***************************************************************************)
(* Reconciliation (youtube_rss.py).                                        *)
(***************************************************************************)
\* the FeedEntry built with seen True
FeedEntrySeen(feedparser_dict) ==
    FeedEntry(feedparser_dict["id"], feedparser_dict["link"], feedparser_dict["title"],
              feedparser_dict["media_thumbnail"][1]["url"], TRUE)

get_relevant_dict_from_feed_parser_dict(feedparser_dict) ==
    FeedEntry(feedparser_dict["id"], feedparser_dict["link"], feedparser_dict["title"],
              feedparser_dict["media_thumbnail"][1]["url"], FALSE)

\* list.reverse()
reverse(s) == [i \in 1..Len(s) |-> s[Len(s) + 1 - i]]

\* the inner for loop comparing the entry's link with the remote id
MatchIndexByLink(entries, video_id) ==
    IF \E i \in 1..Len(entries) : entries[i].link = video_id
    THEN CHOOSE i \in 1..Len(entries) :
            /\ entries[i].link = video_id
            /\ \A j \in 1..(i - 1) : entries[j].link # video_id
    ELSE 0

\* the inner for loop begun at the second entry
MatchIndexSkipsFirst(entries, video_id) ==
    IF \E i \in 2..Len(entries) : entries[i].video_id = video_id
    THEN CHOOSE i \in 2..Len(entries) :
            /\ entries[i].video_id = video_id
            /\ \A j \in 2..(i - 1) : entries[j].video_id # video_id
    ELSE 0

\* the inner for loop: index of the first entry with that video_id, 0 for the
\* for-else case
MatchIndex(entries, video_id) ==
    IF \E i \in 1..Len(entries) : entries[i].video_id = video_id
    THEN CHOOSE i \in 1..Len(entries) :
            /\ entries[i].video_id = video_id
            /\ \A j \in 1..(i - 1) : entries[j].video_id # video_id
    ELSE 0

\* a matched entry overwritten with the remote entry, seen included
ApplyMatchDropsSeen(entries, m, filtered_entry) ==
    [entries EXCEPT ![m] = update(@, filtered_entry)]

\* lines 174-175: the matched entry takes the remote fields and keeps its seen
ApplyMatch(entries, m, filtered_entry) ==
    [entries EXCEPT ![m] = update(@, [filtered_entry EXCEPT !.seen = entries[m].seen])]

\* a new entry appended at the back instead of inserted at the front
ApplyNewAtBack(entries, filtered_entry) == Append(entries, filtered_entry)

\* a new entry assigned as the whole list instead of inserted
ApplyNewAlone(entries, filtered_entry) == << filtered_entry >>

\* line 178: feed.entries.insert(0, filtered_entry)
ApplyNew(entries, filtered_entry) == << filtered_entry >> \o entries

\* the body of the outer for loop, for one remote entry
MergeOne(entries, remote_entry) ==
    LET filtered_entry == get_relevant_dict_from_feed_parser_dict(remote_entry)
        m == MatchIndex(entries, filtered_entry.video_id)
    IN  IF m # 0 THEN ApplyMatch(entries, m, filtered_entry)
                 ELSE ApplyNew(entries, filtered_entry)

RECURSIVE Walk(_, _)
Walk(entries, walk) ==
    IF walk = <<>> THEN entries
    ELSE Walk(MergeOne(entries, Head(walk)), Tail(walk))

\* a refresh that empties the entries when the fetch gave None or no entry
RefreshClearsOnNothing(entries, remote_feed) ==
    IF remote_feed # None /\ remote_feed.entries # <<>>
    THEN Walk(entries, reverse(remote_feed.entries))
    ELSE <<>>

\* refresh_subscription_by_channel_id on a feed's entries, given what
\* parser.get_rss_entries_from_channel_id returned
refresh_subscription_by_channel_id(entries, remote_feed) ==
    IF remote_feed # None THEN Walk(entries, reverse(remote_feed.entries)) ELSE entries

(***************************************************************************)
(* Document store (db.py).  database._data maps a table name to the list   *)
(* of its rows; a table exists once a row was added to it.  The order of   *)
(* the tables in the dict is not modelled.                                 *)
(***************************************************************************)
EmptyData == [name \in {} |-> <<>>]

\* self._data.get(table_class.__tablename__, [])
Table(data, name) == IF name \in DOMAIN data THEN data[name] ELSE <<>>

\* the filter with any() in the place of all()
MatchesAny(x, filter_by) == \E k \in DOMAIN filter_by : x[k] = filter_by[k]

\* all(getattr(x, k) == v for k, v in filter_by.items())
Matches(x, filter_by) == \A k \in DOMAIN filter_by : x[k] = filter_by[k]

\* JsonDatabase.fetch, as the places of the rows it returns: the rows are the
\* objects of the table, not copies
fetch(data, name, filter_by) ==
    LET all_results == Table(data, name)
    IN  SelectSeq([i \in 1..Len(all_results) |-> i],
                  LAMBDA i : Matches(all_results[i], filter_by))

\* fetch_one_or_none that gives the first of several matching rows
FetchFirstOrNone(data, name, filter_by) ==
    LET results == fetch(data, name, filter_by)
    IN  IF results = <<>> THEN [raise |-> FALSE, row |-> 0]
        ELSE [raise |-> FALSE, row |-> results[1]]

\* JsonDatabase.fetch_one_or_none: the place of the one matching row, 0 for
\* None, raise for DatabaseError("Multiple entries found")
fetch_one_or_none(data, name, filter_by) ==
    LET results == fetch(data, name, filter_by)
    IN  IF results = <<>> THEN [raise |-> FALSE, row |-> 0]
        ELSE IF Len(results) = 1 THEN [raise |-> FALSE, row |-> results[1]]
        ELSE [raise |-> TRUE, row |-> 0]

\* the row appended to a table that loses the rows it had
AppendRowReplaces(data, row) == (row.cls :> << row >>) @@ data

\* the row put at the front of its table
AppendRowFront(data, row) == (row.cls :> << row >> \o Table(data, row.cls)) @@ data

\* JsonDatabase.add, line 171: self._data.setdefault(name, []).append(row)
AppendRow(data, row) == (row.cls :> Append(Table(data, row.cls), row)) @@ data

\* the fields of a dataclass that hold a list of dataclass objects
ListFields == {"entries"}

\* the encoder without the kind tag
RECURSIVE ToDictUntagged(_)
ToDictUntagged(obj) ==
    [f \in DOMAIN obj \ {"cls"} |->
        IF f \in ListFields
        THEN [i \in 1..Len(obj[f]) |-> ToDictUntagged(obj[f][i])]
        ELSE obj[f]]

\* DatabaseEncoder.default on a dataclass object: DatabaseEncoder._to_dict
\* gives its fields and the tag "__dataclass__"; json.dump comes back to
\* default for the objects of a list
RECURSIVE ToDict(_)
ToDict(obj) ==
    ("__dataclass__" :> obj.cls) @@
    [f \in DOMAIN obj \ {"cls"} |->
        IF f \in ListFields
        THEN [i \in 1..Len(obj[f]) |-> ToDict(obj[f][i])]
        ELSE obj[f]]

\* json.dump(self, ..., cls=DatabaseEncoder): the document written
Encode(data) ==
    [name \in DOMAIN data |-> [i \in 1..Len(data[name]) |-> ToDict(data[name][i])]]

\* the dataclasses of module db and their fields
Dataclasses ==
    [Feed |-> {"channel_id", "title", "entries"},
     FeedEntry |-> {"video_id", "link", "title", "thumbnail", "seen"},
     TitleCache |-> {"video_id", "title"}]

\* other attributes of module db that a tag can name, with the sets of
\* keyword arguments a call of the attribute accepts: the exception class
\* and the interface class take none, JsonDatabase takes data and filepath,
\* the imported module json and the abstract class IDatabase cannot be called
OtherAttributes ==
    [DatabaseError |-> { {} },
     ITable |-> { {} },
     JsonDatabase |-> SUBSET {"data", "filepath"},
     json |-> {},
     IDatabase |-> {}]

IsRaise(x) == "raise" \in DOMAIN x

\* DatabaseDecoder.object_hook, called by json.load on every object of the
\* document, the innermost first: a tagged object becomes class_(**data),
\* where class_ is getattr(module, tag).  getattr raises AttributeError
\* when the module has no such attribute, the call raises TypeError when the
\* attribute does not take these keyword arguments; an exception raised
\* for an inner object ends the load
RECURSIVE object_hook(_)
object_hook(obj) ==
    LET inner == [f \in DOMAIN obj |->
                     IF f \in ListFields
                     THEN [i \in 1..Len(obj[f]) |-> object_hook(obj[f][i])]
                     ELSE obj[f]]
        raised == { x \in UNION { { inner[f][i] : i \in 1..Len(inner[f]) } :
                                    f \in DOMAIN obj \cap ListFields } : IsRaise(x) }
    IN  IF raised # {} THEN CHOOSE x \in raised : TRUE
        ELSE IF "__dataclass__" \in DOMAIN obj
        THEN LET class_ == obj["__dataclass__"]
                 data == [f \in DOMAIN inner \ {"__dataclass__"} |-> inner[f]]
             IN  IF class_ \in DOMAIN Dataclasses
                 THEN IF DOMAIN data = Dataclasses[class_]
                      THEN ("cls" :> class_) @@ data
                      ELSE [raise |-> "TypeError"]
                 ELSE IF class_ \in DOMAIN OtherAttributes
                 THEN IF DOMAIN data \in OtherAttributes[class_]
                      THEN ("cls" :> class_) @@ data
                      ELSE [raise |-> "TypeError"]
                 ELSE [raise |-> "AttributeError"]
        ELSE inner

\* json.load(file_pointer, cls=DatabaseDecoder) of a complete document
Decode(doc) ==
    [name \in DOMAIN doc |-> [i \in 1..Len(doc[name]) |-> object_hook(doc[name][i])]]

\* the store file: the document in it once it is completely written; before
\* that the file is empty (opened with "w") or holds the beginning of a document
NoDoc == [nodoc |-> TRUE]
FileOf(doc) == [phase |-> "full", doc |-> doc]
TruncatedFile == [phase |-> "empty", doc |-> NoDoc]
PartialFile == [phase |-> "partial", doc |-> NoDoc]
\* in h_sync: the instance does not exist yet
NotLoaded == [phase |-> "none", doc |-> NoDoc]

\* JsonDatabase._load: a file that is no JSON document gives {}
_load(f) == IF f.phase = "full" THEN Decode(f.doc) ELSE EmptyData

\* _load does not return: object_hook raised and json.load passes the
\* exception on, _load catches json.JSONDecodeError only
LoadRaises(f) ==
    /\ f.phase = "full"
    /\ \E name \in DOMAIN f.doc : \E i \in 1..Len(f.doc[name]) : IsRaise(Decode(f.doc)[name][i])

(***************************************************************************)
(* State.                                                                  *)
(***************************************************************************)
VARIABLES
    r_entries,  \* SpecRecon: feed.entries of the one Feed being reconciled
    r_prev,     \* SpecRecon: feed.entries before the last refresh
    r_remote,   \* SpecRecon: what the last refresh fetched
    r_op,       \* SpecRecon: the last operation on the Feed
    file,       \* the store file CONFIG.DATABASE_PATH
    disk0,      \* the store file when the batch refresh was called
    h_docs,     \* the documents a save() has written or has begun to write
    h_sync,     \* per store instance, the store file when it last loaded or saved it
    c_pc,       \* the caller of refresh_subscriptions_by_channel_id
    c_feeds,    \* the channel_id of each Feed of its argument feeds
    c_data,     \* database._data of the store instance the caller holds
    p_pc,       \* the refresh process: where its main thread is
    p_exit,     \* process.exitcode
    p_cause,    \* the exception that ended the main thread, if any
    p_data,     \* database._data of the refresh process
    p_i,        \* the place of its main thread in the current for loop
    p_threads,  \* its list threads
    p_saves,    \* the database.save() calls it has completed
    o_pc,       \* another reader of the store file
    o_data,     \* what that reader's _load gave
    s_data,     \* SpecAdd: _data of the store instance the threads share
    s_data0,    \* SpecAdd: its _data before the calls
    s_lock,     \* SpecAdd: the thread that holds its lock, 0 when it is free
    a_row,      \* SpecAdd: the row each thread adds
    a_pc,       \* SpecAdd: where each thread is in add
    d_data,     \* SpecDb: _data of the store instance of the one thread
    d_prev,     \* SpecDb: its _data when the last operation was called
    d_file,     \* SpecDb: the store file when the last operation was called
    d_op,       \* SpecDb: the last operation, its arguments and its result
    d_log,      \* SpecDb: the rows added since new(), in the order of the calls
    l_op,       \* SpecLock: the operation each thread calls
    l_pc,       \* SpecLock: where each thread is in its operation
    f_pc,       \* SpecFlow: where the interactive process is
    f_flow,     \* SpecFlow: the function it is in, with its arguments
    f_tries     \* SpecFlow: the batch refreshes the function has called

reconVars == << r_entries, r_prev, r_remote, r_op >>
batchVars == << file, disk0, h_docs, h_sync, c_pc, c_feeds, c_data, p_pc, p_exit, p_cause, p_data,
                p_i, p_threads, p_saves, o_pc, o_data >>
addVars == << s_data, s_data0, s_lock, a_row, a_pc >>
dbVars == << d_data, d_prev, d_file, d_op, d_log >>
lockVars == << l_op, l_pc >>
flowVars == << f_pc, f_flow, f_tries >>
procVars == << p_pc, p_exit, p_cause, p_data, p_i, p_threads, p_saves >>
vars == << r_entries, r_prev, r_remote, r_op, file, disk0, h_docs, h_sync, c_pc, c_feeds,
           p_pc, p_exit, p_cause, p_data, p_i, p_threads, p_saves, o_pc, o_data,
           s_data, s_data0, s_lock, a_row, a_pc, c_data, d_data, d_prev, d_file, d_op,
           d_log,
           l_op, l_pc, f_pc, f_flow, f_tries >>
\* the variables SpecRecon and Spec leave alone
notRecon == << batchVars, addVars, dbVars, lockVars, flowVars >>
notBatch == << reconVars, addVars, dbVars, lockVars, flowVars >>

AddIdle ==
    /\ s_data = EmptyData
    /\ s_data0 = EmptyData
    /\ s_lock = 0
    /\ a_row = <<>>
    /\ a_pc = <<>>

\* the values of the variables a specification does not use
ReconIdle ==
    /\ r_entries = <<>>
    /\ r_prev = <<>>
    /\ r_remote = RssResult(<<>>)
    /\ r_op = "idle"

BatchIdle ==
    /\ file = FileOf(Encode(EmptyData))
    /\ disk0 = file
    /\ h_docs = {}
    /\ h_sync = [caller |-> file, process |-> NotLoaded]
    /\ c_pc = "idle"
    /\ c_feeds = <<>>
    /\ c_data = EmptyData
    /\ p_pc = "none"
    /\ p_exit = "none"
    /\ p_cause = "none"
    /\ p_data = EmptyData
    /\ p_i = 0
    /\ p_threads = <<>>
    /\ p_saves = 0
    /\ o_pc = "idle"
    /\ o_data = EmptyData

DbIdle ==
    /\ d_data = EmptyData
    /\ d_prev = EmptyData
    /\ d_file = FileOf(Encode(EmptyData))
    /\ d_op = [name |-> "idle"]
    /\ d_log = [valid |-> FALSE, rows |-> <<>>]

LockIdle ==
    /\ l_op = <<>>
    /\ l_pc = <<>>

FlowIdle ==
    /\ f_pc = "menu"
    /\ f_flow = [name |-> "none"]
    /\ f_tries = 0

(***************************************************************************)
(* SpecRecon: one Feed, created with no entries, refreshed over and over   *)
(* with any remote feed, its entries marked as read or played in between.  *)
(***************************************************************************)
RemoteLists == { RssResult(s) : s \in SeqsUpTo(RemoteEntries, MaxRemote) }

ReconInit == ReconIdle /\ BatchIdle /\ AddIdle /\ DbIdle /\ LockIdle /\ FlowIdle

\* refresh_subscription_by_channel_id(feed), up to its last statement
ReconRefresh ==
    /\ r_op = "idle"
    /\ \E remote_feed \in RemoteLists :
        /\ r_entries' = refresh_subscription_by_channel_id(r_entries, remote_feed)
        /\ r_prev' = r_entries
        /\ r_remote' = remote_feed
        /\ r_op' = "refresh"
    /\ UNCHANGED notRecon

\* refresh_subscription_by_channel_id(feed) when remote_feed is None, the
\* case its line 166 provides for
ReconRefreshNone ==
    /\ r_op = "idle"
    /\ r_entries' = refresh_subscription_by_channel_id(r_entries, None)
    /\ r_prev' = r_entries
    /\ r_op' = "refresh_none"
    /\ UNCHANGED << r_remote, notRecon >>

\* refresh_subscription_by_channel_id returns: remote_feed goes out of scope
ReconReturn ==
    /\ r_op \in {"refresh", "refresh_none"}
    /\ r_op' = "idle"
    /\ r_prev' = <<>>
    /\ r_remote' = RssResult(<<>>)
    /\ UNCHANGED << r_entries, notRecon >>

\* MarkEntryAsReadKey._mark_read(video)
ReconMarkRead ==
    /\ r_op = "idle"
    /\ \E i \in 1..Len(r_entries) :
        r_entries' = [r_entries EXCEPT ![i].seen = TRUE]
    /\ UNCHANGED << r_prev, r_remote, r_op, notRecon >>

\* do_play_video_from_subscription(database, video), result what the player reports
ReconPlay ==
    /\ r_op = "idle"
    /\ \E i \in 1..Len(r_entries), result \in BOOLEAN :
        r_entries' = IF ~r_entries[i].seen
                     THEN [r_entries EXCEPT ![i].seen = result]
                     ELSE r_entries
    /\ UNCHANGED << r_prev, r_remote, r_op, notRecon >>

ReconNext == ReconRefresh \/ ReconRefreshNone \/ ReconReturn \/ ReconMarkRead \/ ReconPlay

SpecRecon == ReconInit /\ [][ReconNext]_vars

(***************************************************************************)
(* Spec: one batch refresh.  refresh_subscriptions_by_channel_id(feeds)    *)
(* starts a process that loads the store, starts one thread per Feed it    *)
(* finds, joins the threads and saves the store; the caller waits for the  *)
(* process.  A SIGINT may reach the process, and another reader may load   *)
(* the store file at any moment.                                           *)
(***************************************************************************)
Content1 == [link |-> "http://l1", title |-> "t1", url |-> "http://u1"]
Entry1(video_id, seen) ==
    FeedEntry(video_id, Content1.link, Content1.title, Content1.url, seen)

\* the stores a batch refresh may find in the file
InitStores ==
    { AppendRow(AppendRow(EmptyData, Feed("A", "a", <<>>)), Feed("B", "b", <<>>)),
      AppendRow(AppendRow(EmptyData, Feed("A", "a", << Entry1("v1", TRUE) >>)),
                Feed("B", "b", << Entry1("v2", FALSE), Entry1("v1", TRUE) >>)) }

\* the arguments of refresh_subscriptions_by_channel_id, as channel ids
FeedLists ==
    { <<>>, << "A" >>, << "A", "B" >>, << "B", "A" >>, << "Z", "B" >>, << "A", "A" >>,
      << "Z" >> }

\* what a channel's RSS address may deliver during the batch
BatchRemoteEntries == { e \in RemoteEntries : e.id \in {"v1", "v2"} /\ e.title = "t2" }
BatchRemotes == { RssResult(s) : s \in SeqsUpTo(BatchRemoteEntries, MaxFetch) }

Init ==
    /\ ReconIdle
    /\ AddIdle
    /\ DbIdle
    /\ LockIdle
    /\ FlowIdle
    /\ \E data \in InitStores : file = FileOf(Encode(data))
    /\ disk0 = file
    /\ h_docs = { file.doc }
    /\ h_sync = [caller |-> file, process |-> NotLoaded]
    /\ c_pc = "idle"
    /\ c_feeds = <<>>
    /\ c_data = _load(file)
    /\ p_pc = "none"
    /\ p_exit = "none"
    /\ p_cause = "none"
    /\ p_data = EmptyData
    /\ p_i = 0
    /\ p_threads = <<>>
    /\ p_saves = 0
    /\ o_pc = "idle"
    /\ o_data = EmptyData

\* refresh_subscriptions_by_channel_id: process.start()
C_Start ==
    /\ c_pc = "idle"
    /\ \E feeds \in FeedLists : c_feeds' = feeds
    /\ c_pc' = "join"
    /\ p_pc' = "get_database"
    /\ UNCHANGED << notBatch, c_data, file, disk0, h_docs, h_sync, p_exit, p_cause, p_data, p_i,
                    p_threads, p_saves, o_pc, o_data >>

\* process.join() returns and exitcode is 0
C_JoinClean ==
    /\ c_pc = "join"
    /\ p_pc = "exited"
    /\ p_exit = "0"
    /\ c_pc' = "returned"
    /\ UNCHANGED << notBatch, c_data, file, disk0, h_docs, h_sync, c_feeds, procVars, o_pc,
                    o_data >>

\* process.join() returns and exitcode is not 0: raise ProcessError
C_JoinError ==
    /\ c_pc = "join"
    /\ p_pc = "exited"
    /\ p_exit # "0"
    /\ c_pc' = "ProcessError"
    /\ UNCHANGED << notBatch, c_data, file, disk0, h_docs, h_sync, c_feeds, procVars, o_pc,
                    o_data >>

\* the process working on the store instance of its caller instead of
\* loading the file
P_GetDatabaseFromCaller ==
    /\ p_pc = "get_database"
    /\ p_data' = c_data
    /\ h_sync' = [h_sync EXCEPT !.process = h_sync.caller]
    /\ p_pc' = "start_threads"
    /\ p_i' = 1
    /\ UNCHANGED << notBatch, c_data, file, disk0, h_docs, c_pc, c_feeds, p_exit, p_cause,
                    p_threads, p_saves, o_pc, o_data >>

\* database = CONFIG.get_database(): the file exists, connect() loads it
P_GetDatabase ==
    /\ p_pc = "get_database"
    /\ p_data' = _load(file)
    /\ h_sync' = [h_sync EXCEPT !.process = file]
    /\ p_pc' = "start_threads"
    /\ p_i' = 1
    /\ UNCHANGED << notBatch, c_data, file, disk0, h_docs, c_pc, c_feeds, p_exit, p_cause,
                    p_threads, p_saves, o_pc, o_data >>

NewThread(row) ==
    [row |-> row, pc |-> "fetch", remote |-> RssResult(<<>>), k |-> 0, m |-> 0]

\* the first for loop without "if feed_ is None: continue"
P_StartThreadNoSkip ==
    /\ p_pc = "start_threads"
    /\ p_i <= Len(c_feeds)
    /\ LET feed_ == fetch_one_or_none(p_data, "Feed", [channel_id |-> c_feeds[p_i]])
       IN  /\ p_threads' = Append(p_threads, NewThread(feed_.row))
           /\ p_i' = p_i + 1
           /\ UNCHANGED << p_pc, p_cause >>
    /\ UNCHANGED << notBatch, c_data, file, disk0, h_docs, h_sync, c_pc, c_feeds, p_exit, p_data,
                    p_saves, o_pc, o_data >>

\* one round of the first for loop: fetch_one_or_none, then continue, or
\* start a thread on the Feed found
P_StartThread ==
    /\ p_pc = "start_threads"
    /\ p_i <= Len(c_feeds)
    /\ LET feed_ == fetch_one_or_none(p_data, "Feed", [channel_id |-> c_feeds[p_i]])
       IN  IF feed_.raise
           THEN /\ p_pc' = "raise"
                /\ p_cause' = "DatabaseError"
                /\ UNCHANGED << p_i, p_threads >>
           ELSE /\ p_threads' = IF feed_.row = 0 THEN p_threads
                                ELSE Append(p_threads, NewThread(feed_.row))
                /\ p_i' = p_i + 1
                /\ UNCHANGED << p_pc, p_cause >>
    /\ UNCHANGED << notBatch, c_data, file, disk0, h_docs, h_sync, c_pc, c_feeds, p_exit, p_data,
                    p_saves, o_pc, o_data >>

\* the first for loop is over
P_StartedAll ==
    /\ p_pc = "start_threads"
    /\ p_i > Len(c_feeds)
    /\ p_pc' = "join"
    /\ p_i' = 1
    /\ UNCHANGED << notBatch, c_data, file, disk0, h_docs, h_sync, c_pc, c_feeds, p_exit, p_cause,
                    p_data, p_threads, p_saves, o_pc, o_data >>

Finished(thread) == thread.pc \in {"done", "failed"}

\* ErrorCatchingThread.join of a thread that ended with exc None
P_Join ==
    /\ p_pc = "join"
    /\ p_i <= Len(p_threads)
    /\ p_threads[p_i].pc = "done"
    /\ p_i' = p_i + 1
    /\ UNCHANGED << notBatch, c_data, file, disk0, h_docs, h_sync, c_pc, c_feeds, p_pc, p_exit,
                    p_cause, p_data, p_threads, p_saves, o_pc, o_data >>

\* threading.Thread.join in the place of ErrorCatchingThread.join: the
\* exception the thread caught is not raised again
P_JoinNoRaise ==
    /\ p_pc = "join"
    /\ p_i <= Len(p_threads)
    /\ p_threads[p_i].pc = "failed"
    /\ p_i' = p_i + 1
    /\ UNCHANGED << notBatch, c_data, file, disk0, h_docs, h_sync, c_pc, c_feeds, p_pc, p_exit,
                    p_cause, p_data, p_threads, p_saves, o_pc, o_data >>

\* ErrorCatchingThread.join of a thread that caught an exception: raise self.exc
P_JoinRaise ==
    /\ p_pc = "join"
    /\ p_i <= Len(p_threads)
    /\ p_threads[p_i].pc = "failed"
    /\ p_pc' = "raise"
    /\ p_cause' = "thread.exc"
    /\ UNCHANGED << notBatch, c_data, file, disk0, h_docs, h_sync, c_pc, c_feeds, p_exit, p_data,
                    p_i, p_threads, p_saves, o_pc, o_data >>

\* the second for loop is over; CONFIG.USE_THUMBNAILS is False
P_JoinedAll ==
    /\ p_pc = "join"
    /\ p_i > Len(p_threads)
    /\ p_pc' = "save"
    /\ UNCHANGED << notBatch, c_data, file, disk0, h_docs, h_sync, c_pc, c_feeds, p_exit, p_cause,
                    p_data, p_i, p_threads, p_saves, o_pc, o_data >>

\* database.save(): self._filepath.open("w") empties the file
P_SaveOpen ==
    /\ p_pc = "save"
    /\ file' = TruncatedFile
    /\ h_docs' = h_docs \cup { Encode(p_data) }
    /\ p_pc' = "dump"
    /\ UNCHANGED << notBatch, c_data, disk0, h_sync, c_pc, c_feeds, p_exit, p_cause, p_data, p_i,
                    p_threads, p_saves, o_pc, o_data >>

\* database.save(): json.dump, flush and close
P_SaveDump ==
    /\ p_pc = "dump"
    /\ file' = FileOf(Encode(p_data))
    /\ h_sync' = [h_sync EXCEPT !.process = file']
    /\ p_saves' = p_saves + 1
    /\ p_pc' = "saved"
    /\ UNCHANGED << notBatch, c_data, disk0, h_docs, c_pc, c_feeds, p_exit, p_cause, p_data,
                    p_i, p_threads, o_pc, o_data >>

\* the target returned: exit code 0
P_Exit ==
    /\ p_pc = "saved"
    /\ p_pc' = "exited"
    /\ p_exit' = "0"
    /\ UNCHANGED << notBatch, c_data, file, disk0, h_docs, h_sync, c_pc, c_feeds, p_cause, p_data,
                    p_i, p_threads, p_saves, o_pc, o_data >>

\* the target raised and the process exits at once, its threads ended with it
P_ExitRaiseNow ==
    /\ p_pc = "raise"
    /\ p_pc' = "exited"
    /\ p_exit' = "1"
    /\ UNCHANGED << notBatch, c_data, file, disk0, h_docs, h_sync, c_pc, c_feeds, p_cause, p_data,
                    p_i, p_threads, p_saves, o_pc, o_data >>

\* the target raised: the process waits for its threads and exits with code 1
P_ExitRaise ==
    /\ p_pc = "raise"
    /\ \A t \in 1..Len(p_threads) : Finished(p_threads[t])
    /\ p_pc' = "exited"
    /\ p_exit' = "1"
    /\ UNCHANGED << notBatch, c_data, file, disk0, h_docs, h_sync, c_pc, c_feeds, p_cause, p_data,
                    p_i, p_threads, p_saves, o_pc, o_data >>

\* SIGINT while the main thread is in ErrorCatchingThread.join:
\* os.kill(pid, signal.SIGTERM)
P_InterruptJoin ==
    /\ p_pc = "join"
    /\ p_pc' = "exited"
    /\ p_exit' = "-15"
    /\ p_cause' = "KeyboardInterrupt"
    /\ UNCHANGED << notBatch, c_data, file, disk0, h_docs, h_sync, c_pc, c_feeds, p_data, p_i,
                    p_threads, p_saves, o_pc, o_data >>

\* SIGINT while the main thread is in json.dump: the with statement closes
\* the file with what was written so far
P_InterruptDump ==
    /\ p_pc = "dump"
    /\ file' \in { TruncatedFile, PartialFile }
    /\ p_pc' = "raise"
    /\ p_cause' = "KeyboardInterrupt"
    /\ UNCHANGED << notBatch, c_data, disk0, h_docs, h_sync, c_pc, c_feeds, p_exit, p_data, p_i,
                    p_threads, p_saves, o_pc, o_data >>

\* SIGINT while the main thread is anywhere else
P_Interrupt ==
    /\ p_pc \in {"get_database", "start_threads", "save", "saved"}
    /\ p_pc' = "raise"
    /\ p_cause' = "KeyboardInterrupt"
    /\ UNCHANGED << notBatch, c_data, file, disk0, h_docs, h_sync, c_pc, c_feeds, p_exit, p_data,
                    p_i, p_threads, p_saves, o_pc, o_data >>

Alive == p_pc \notin {"none", "exited"}
Walked(thread) == reverse(thread.remote.entries)

\* ErrorCatchingThread.run: the fetch raises, the exception is kept in exc
T_FetchRaise(t) ==
    /\ Alive
    /\ p_threads[t].pc = "fetch"
    /\ p_threads' = [p_threads EXCEPT ![t].pc = "failed"]
    /\ UNCHANGED << notBatch, c_data, file, disk0, h_docs, h_sync, c_pc, c_feeds, p_pc, p_exit,
                    p_cause, p_data, p_i, p_saves, o_pc, o_data >>

\* remote_feed = parser.get_rss_entries_from_channel_id(feed.channel_id);
\* remote_feed.reverse()
T_Fetch(t) ==
    /\ Alive
    /\ p_threads[t].pc = "fetch"
    /\ \E remote_feed \in BatchRemotes :
        p_threads' = [p_threads EXCEPT
                        ![t].remote = remote_feed,
                        ![t].k = 1,
                        ![t].pc = IF remote_feed.entries = <<>> THEN "done" ELSE "search"]
    /\ UNCHANGED << notBatch, c_data, file, disk0, h_docs, h_sync, c_pc, c_feeds, p_pc, p_exit,
                    p_cause, p_data, p_i, p_saves, o_pc, o_data >>

\* the inner for loop for the remote entry at hand
T_Search(t) ==
    /\ Alive
    /\ p_threads[t].pc = "search"
    /\ LET thread == p_threads[t]
           filtered_entry == get_relevant_dict_from_feed_parser_dict(Walked(thread)[thread.k])
       IN  p_threads' = [p_threads EXCEPT
                ![t].m = MatchIndex(p_data["Feed"][thread.row].entries,
                                    filtered_entry.video_id),
                ![t].pc = "apply"]
    /\ UNCHANGED << notBatch, c_data, file, disk0, h_docs, h_sync, c_pc, c_feeds, p_pc, p_exit,
                    p_cause, p_data, p_i, p_saves, o_pc, o_data >>

\* the update of the entry found, or the insert; an insert moves the entry
\* another thread has found in the same list one place on
T_Apply(t) ==
    /\ Alive
    /\ p_threads[t].pc = "apply"
    /\ LET thread == p_threads[t]
           filtered_entry == get_relevant_dict_from_feed_parser_dict(Walked(thread)[thread.k])
           entries == p_data["Feed"][thread.row].entries
       IN  /\ p_data' = [p_data EXCEPT !["Feed"][thread.row].entries =
                            IF thread.m # 0 THEN ApplyMatch(entries, thread.m, filtered_entry)
                                            ELSE ApplyNew(entries, filtered_entry)]
           /\ p_threads' =
                [u \in 1..Len(p_threads) |->
                    IF u = t
                    THEN [thread EXCEPT
                            !.k = thread.k + 1,
                            !.m = 0,
                            !.pc = IF thread.k + 1 > Len(thread.remote.entries)
                                   THEN "done" ELSE "search"]
                    ELSE IF /\ thread.m = 0
                            /\ p_threads[u].row = thread.row
                            /\ p_threads[u].pc = "apply"
                            /\ p_threads[u].m # 0
                         THEN [p_threads[u] EXCEPT !.m = @ + 1]
                         ELSE p_threads[u]]
    /\ UNCHANGED << notBatch, c_data, file, disk0, h_docs, h_sync, c_pc, c_feeds, p_pc, p_exit,
                    p_cause, p_i, p_saves, o_pc, o_data >>

\* connect() that leaves _data as it is
C_ConnectNoLoad ==
    /\ c_pc = "returned"
    /\ c_pc' = "connected"
    /\ UNCHANGED << notBatch, c_data, file, disk0, h_docs, h_sync, c_feeds, procVars, o_pc,
                    o_data >>

\* the caller, after the refresh has returned: database.connect()
C_Connect ==
    /\ c_pc = "returned"
    /\ c_data' = _load(file)
    /\ h_sync' = [h_sync EXCEPT !.caller = file]
    /\ c_pc' = "connected"
    /\ UNCHANGED << notBatch, file, disk0, h_docs, c_feeds, procVars, o_pc, o_data >>

\* another store instance loads the file: CONFIG.get_database()
O_Load ==
    /\ o_pc = "idle"
    /\ o_data' = _load(file)
    /\ o_pc' = "loaded"
    /\ UNCHANGED << notBatch, c_data, file, disk0, h_docs, h_sync, c_pc, c_feeds, procVars >>

Next ==
    \/ C_Start
    \/ C_JoinClean
    \/ C_JoinError
    \/ C_Connect
    \/ P_GetDatabase
    \/ P_StartThread
    \/ P_StartedAll
    \/ P_Join
    \/ P_JoinRaise
    \/ P_JoinedAll
    \/ P_SaveOpen
    \/ P_SaveDump
    \/ P_Exit
    \/ P_ExitRaise
    \/ P_InterruptJoin
    \/ P_InterruptDump
    \/ P_Interrupt
    \/ \E t \in 1..Len(p_threads) : T_FetchRaise(t)
    \/ \E t \in 1..Len(p_threads) : T_Fetch(t)
    \/ \E t \in 1..Len(p_threads) : T_Search(t)
    \/ \E t \in 1..Len(p_threads) : T_Apply(t)
    \/ O_Load

Spec == Init /\ [][Next]_vars

(***************************************************************************)
(* Properties of the batch refresh, under Spec.                            *)
(***************************************************************************)
EntriesOf(data, row) == data["Feed"][row].entries
\* the caller has the outcome of the batch, and no SIGINT reached the process
BatchOver == c_pc \in {"returned", "ProcessError"} /\ p_cause # "KeyboardInterrupt"

\* C1: when the batch is over, the fetch of one channel raised and the fetch
\* of another succeeded, the store file holds the other channel's merged
\* entries and the failed channel's entries as they were.
C1_Isolation ==
    BatchOver =>
        \A a, b \in 1..Len(p_threads) :
            (/\ p_threads[a].pc = "failed"
             /\ p_threads[b].pc = "done"
             /\ p_threads[a].row # p_threads[b].row)
            => /\ file.phase = "full"
               /\ EntriesOf(_load(file), p_threads[a].row)
                    = EntriesOf(_load(disk0), p_threads[a].row)
               /\ EntriesOf(_load(file), p_threads[b].row)
                    = refresh_subscription_by_channel_id(
                          EntriesOf(_load(disk0), p_threads[b].row), p_threads[b].remote)

\* C6: once the refresh process has saved its store, loading the file gives
\* the tables of the store: the same rows of the same classes in the same
\* order, each Feed with the same entries in the same order.
C6_RoundTrip ==
    p_saves >= 1 => file.phase = "full" /\ _load(file) = p_data

\* a store saved with two Feeds, one of them with an entry seen and an entry
\* not seen
C6_Witness ==
    /\ p_saves >= 1
    /\ Len(Table(p_data, "Feed")) = 2
    /\ \E row \in 1..2 :
        LET entries == EntriesOf(p_data, row)
        IN  /\ Len(entries) >= 2
            /\ \E i, j \in 1..Len(entries) :
                entries[i].seen /\ ~entries[j].seen /\ entries[i].title # entries[j].title
    /\ _load(file) = p_data

\* C7: a reader that loads the store file at any moment gets the content of
\* a completely written document: the one before the save or the one saved.
C7_AtomicSave ==
    o_pc = "loaded" => o_data \in { Decode(doc) : doc \in h_docs }

\* C8: after a non-zero exit the caller raises and the store file is what it
\* was when the batch began; after a clean exit the file holds the store of
\* the process with every thread's reconciliation done.
C8_AllOrNothing ==
    /\ (p_pc = "exited" /\ p_exit # "0" /\ c_pc # "join") =>
            c_pc = "ProcessError" /\ file = disk0
    /\ (p_pc = "exited" /\ p_exit = "0" /\ c_pc # "join") =>
            /\ c_pc = "returned"
            /\ file.phase = "full" /\ _load(file) = p_data
            /\ \A t \in 1..Len(p_threads) : p_threads[t].pc = "done"

\* the save of the process never runs while one of its threads is still at work
SaveAfterWorkers ==
    p_pc \in {"dump", "saved"} => \A t \in 1..Len(p_threads) : Finished(p_threads[t])

\* C9: a refresh process that ran to its end, no SIGINT having reached it,
\* has saved the store exactly once, and its save never runs while one of its
\* threads is still at work.
C9_SingleFinalSave ==
    /\ (p_pc = "exited" /\ p_cause # "KeyboardInterrupt") => p_saves = 1
    /\ SaveAfterWorkers

(***************************************************************************)
(* SpecAdd: two threads of one process call add(row) on the same           *)
(* JsonDatabase.  add holds the lock of the instance from the append to    *)
(* the end of its save().                                                  *)
(***************************************************************************)
AddThreads == {1, 2}
\* the rows the threads add
AddRows ==
    { Feed(channel_id, "t", entries) :
        channel_id \in {"A", "B"}, entries \in { <<>>, << Entry1("v1", FALSE) >> } }
\* the stores they add to
AddStores == { EmptyData, AppendRow(EmptyData, Feed("C", "c", <<>>)) }

AddInit ==
    /\ ReconIdle
    /\ DbIdle
    /\ LockIdle
    /\ FlowIdle
    /\ c_data = EmptyData
    /\ \E data \in AddStores :
        /\ s_data = data
        /\ s_data0 = data
        /\ file = FileOf(Encode(data))
    /\ disk0 = file
    /\ h_docs = {}
    /\ h_sync = [caller |-> file, process |-> NotLoaded]
    /\ c_pc = "idle"
    /\ c_feeds = <<>>
    /\ p_pc = "none"
    /\ p_exit = "none"
    /\ p_cause = "none"
    /\ p_data = EmptyData
    /\ p_i = 0
    /\ p_threads = <<>>
    /\ p_saves = 0
    /\ o_pc = "idle"
    /\ o_data = EmptyData
    /\ s_lock = 0
    /\ a_row \in [AddThreads -> AddRows]
    /\ a_pc = [t \in AddThreads |-> "call"]

addFrame == << reconVars, dbVars, lockVars, flowVars, disk0, h_docs, h_sync, c_pc, c_feeds, c_data,
               procVars, o_pc, o_data,
               s_data0, a_row >>

\* threading.Lock.acquire returns only when the lock is free
LockFree(lock) == lock = 0

\* with self.__lock:
A_Acquire(t) ==
    /\ a_pc[t] = "call"
    /\ LockFree(s_lock)
    /\ s_lock' = t
    /\ a_pc' = [a_pc EXCEPT ![t] = "append"]
    /\ UNCHANGED << file, s_data, addFrame >>

\* self._data.setdefault(row.__tablename__, []).append(row)
A_Append(t) ==
    /\ a_pc[t] = "append"
    /\ s_data' = AppendRow(s_data, a_row[t])
    /\ a_pc' = [a_pc EXCEPT ![t] = "save"]
    /\ UNCHANGED << file, s_lock, addFrame >>

\* self.save(): self._filepath.open("w")
A_SaveOpen(t) ==
    /\ a_pc[t] = "save"
    /\ file' = TruncatedFile
    /\ a_pc' = [a_pc EXCEPT ![t] = "dump"]
    /\ UNCHANGED << s_data, s_lock, addFrame >>

\* self.save(): json.dump, flush and close
A_SaveDump(t) ==
    /\ a_pc[t] = "dump"
    /\ file' = FileOf(Encode(s_data))
    /\ a_pc' = [a_pc EXCEPT ![t] = "release"]
    /\ UNCHANGED << s_data, s_lock, addFrame >>

\* the end of the with statement; add returns
A_Release(t) ==
    /\ a_pc[t] = "release"
    /\ s_lock' = IF s_lock = t THEN 0 ELSE s_lock
    /\ a_pc' = [a_pc EXCEPT ![t] = "returned"]
    /\ UNCHANGED << file, s_data, addFrame >>

AddNext ==
    \/ \E t \in AddThreads : A_Acquire(t)
    \/ \E t \in AddThreads : A_Append(t)
    \/ \E t \in AddThreads : A_SaveOpen(t)
    \/ \E t \in AddThreads : A_SaveDump(t)
    \/ \E t \in AddThreads : A_Release(t)

SpecAdd == AddInit /\ [][AddNext]_vars

(***************************************************************************)
(* Properties of add, under SpecAdd.                                       *)
(***************************************************************************)
\* JsonDatabase.fetch_all
fetch_all(data, name) == Table(data, name)
InTable(table, row) == \E i \in 1..Len(table) : table[i] = row

\* C10: two threads adding Feeds of different channel_id to one store both
\* return, whatever the interleaving, and fetch_all(Feed) then holds the
\* Feeds the store had and both new Feeds, each once.
C10_ConcurrentAdd ==
    /\ (\E t \in AddThreads : a_pc[t] # "returned") => ENABLED AddNext
    /\ (/\ \A t \in AddThreads : a_pc[t] = "returned"
        /\ a_row[1].channel_id # a_row[2].channel_id)
       => LET feeds == fetch_all(s_data, "Feed")
          IN  /\ InTable(feeds, a_row[1])
              /\ InTable(feeds, a_row[2])
              /\ Len(feeds) = Len(fetch_all(s_data0, "Feed")) + 2
              /\ \A i \in 1..Len(fetch_all(s_data0, "Feed")) :
                    feeds[i] = fetch_all(s_data0, "Feed")[i]

\* both threads have returned from add, the second having waited for the lock
\* of the first, and the store had a Feed before
C10_Witness ==
    /\ \A t \in AddThreads : a_pc[t] = "returned"
    /\ a_row[1].channel_id # a_row[2].channel_id
    /\ Len(fetch_all(s_data0, "Feed")) = 1
    /\ fetch_all(s_data, "Feed")[2] = a_row[2]
    /\ fetch_all(s_data, "Feed")[3] = a_row[1]

(***************************************************************************)
(* Properties of reconciliation, under SpecRecon.                          *)
(***************************************************************************)
IdsOf(entries) == [i \in 1..Len(entries) |-> entries[i].video_id]
RemoteIds(remote_feed) == { remote_feed.entries[i].id : i \in 1..Len(remote_feed.entries) }
DistinctIds(entries) ==
    \A i, j \in 1..Len(entries) : entries[i].video_id = entries[j].video_id => i = j
\* where the refresh left the entry that was at index i before it
Shift == Len(r_entries) - Len(r_prev)

\* C2: a refresh leaves seen = TRUE on every entry that had it, whether or not
\* the remote feed names the entry; the entry stays the same video.
C2_SeenPreserved ==
    r_op = "refresh" =>
        \A i \in 1..Len(r_prev) :
            r_prev[i].seen =>
                /\ Shift >= 0
                /\ r_entries[i + Shift].video_id = r_prev[i].video_id
                /\ r_entries[i + Shift].seen

\* a seen entry was matched by a remote entry that changed its title
C2_Witness ==
    /\ r_op = "refresh"
    /\ \E i \in 1..Len(r_prev) :
        /\ r_prev[i].seen
        /\ r_prev[i].video_id \in RemoteIds(r_remote)
        /\ r_entries[i + Shift].title # r_prev[i].title
        /\ r_entries[i + Shift].seen

\* C3: starting from a Feed with no entries, after any number of refreshes
\* with any remote feeds the entries have pairwise distinct ids.
C3_Dedup == DistinctIds(r_entries)

\* a refresh whose remote feed repeats an id and names an id already present
C3_Witness ==
    /\ r_op = "refresh"
    /\ Len(r_prev) >= 1
    /\ \E i \in 1..Len(r_prev) : r_prev[i].video_id \in RemoteIds(r_remote)
    /\ \E i, j \in 1..Len(r_remote.entries) :
        i # j /\ r_remote.entries[i].id = r_remote.entries[j].id
    /\ Len(r_entries) > Len(r_prev)

\* C4: reconciling the remote feed just reconciled once more changes nothing.
C4_Idempotent ==
    r_op = "refresh" =>
        refresh_subscription_by_channel_id(r_entries, r_remote) = r_entries

\* the refresh added an entry and updated another
C4_Witness ==
    /\ r_op = "refresh"
    /\ Len(r_entries) > Len(r_prev)
    /\ \E i \in 1..Len(r_prev) :
        /\ r_prev[i].seen
        /\ r_entries[i + Shift] # r_prev[i]

\* ids of the remote feed that the Feed did not have, each at its last place
\* in the delivered list (its first place in the reversed walk)
RECURSIVE NewIdsFrom(_, _, _)
NewIdsFrom(delivered, known, i) ==
    IF i > Len(delivered) THEN <<>>
    ELSE IF /\ delivered[i].id \notin known
            /\ \A j \in (i + 1)..Len(delivered) : delivered[j].id # delivered[i].id
         THEN << delivered[i].id >> \o NewIdsFrom(delivered, known, i + 1)
         ELSE NewIdsFrom(delivered, known, i + 1)

\* C5: after a refresh the ids are the new ids, last walked first, followed
\* by the ids the Feed had, in their previous order.
C5_NewEntryOrdering ==
    r_op = "refresh" =>
        IdsOf(r_entries) =
            NewIdsFrom(r_remote.entries, { r_prev[i].video_id : i \in 1..Len(r_prev) }, 1)
                \o IdsOf(r_prev)

\* the example: entries [E2, E1], walk [E1, E2, E3], result [E3, E2, E1]
C5_Witness ==
    /\ r_op = "refresh"
    /\ IdsOf(r_prev) = << "v2", "v1" >>
    /\ [i \in 1..Len(r_remote.entries) |-> reverse(r_remote.entries)[i].id]
            = << "v1", "v2", "v3" >>
    /\ IdsOf(r_entries) = << "v3", "v2", "v1" >>

\* the remote entry whose fields an entry with the video id has after the
\* walk: the first one of the delivered list, the last one walked
RemoteFor(video_id) ==
    r_remote.entries[CHOOSE i \in 1..Len(r_remote.entries) :
                        /\ r_remote.entries[i].id = video_id
                        /\ \A j \in 1..(i - 1) : r_remote.entries[j].id # video_id]
HasRemoteFields(entry) ==
    LET remote_entry == RemoteFor(entry.video_id)
    IN  /\ entry.link = remote_entry.link
        /\ entry.title = remote_entry.title
        /\ entry.thumbnail = remote_entry.media_thumbnail[1].url

\* C27: after a refresh every entry the Feed had is at its place among the
\* entries it had, with its seen; it has the link, title and thumbnail of
\* the remote entry with its id when the remote feed has one, and all its
\* fields as before when not.
C27_MatchedUpdate ==
    r_op = "refresh" =>
        /\ Shift >= 0
        /\ \A i \in 1..Len(r_prev) :
            LET entry == r_entries[i + Shift]
            IN  /\ entry.video_id = r_prev[i].video_id
                /\ entry.seen = r_prev[i].seen
                /\ IF r_prev[i].video_id \in RemoteIds(r_remote)
                   THEN HasRemoteFields(entry)
                   ELSE entry = r_prev[i]
C27_Witness ==
    /\ r_op = "refresh"
    /\ Shift = 1
    /\ Len(r_prev) = 2
    /\ r_prev[1].seen
    /\ r_prev[1].video_id \in RemoteIds(r_remote)
    /\ r_entries[2].title # r_prev[1].title
    /\ r_entries[2].link # r_prev[1].link
    /\ r_prev[2].video_id \notin RemoteIds(r_remote)

\* C29: every entry a refresh adds is not seen, has the link, title and
\* thumbnail of the remote entry with its id, and was inserted at the front:
\* the added entries come before all entries the Feed had.
C29_NewUnseen ==
    r_op = "refresh" =>
        \A j \in 1..Len(r_entries) :
            (\A i \in 1..Len(r_prev) : r_prev[i].video_id # r_entries[j].video_id) =>
                /\ ~r_entries[j].seen
                /\ r_entries[j].video_id \in RemoteIds(r_remote)
                /\ HasRemoteFields(r_entries[j])
                /\ j <= Shift
C29_Witness ==
    /\ r_op = "refresh"
    /\ Shift = 2
    /\ Len(r_prev) = 1
    /\ r_prev[1].seen
    /\ r_entries[1].title # r_entries[2].title

\* C30: a refresh whose fetch gave None, and likewise one whose fetch gave
\* an empty list, leaves the entries as they were.
C30_NoUpdateOnAbsent ==
    (r_op = "refresh_none" \/ (r_op = "refresh" /\ r_remote.entries = <<>>)) =>
        r_entries = r_prev
C30_Witness ==
    /\ r_op = "refresh_none"
    /\ Len(r_entries) = 2
    /\ r_entries[1].seen
    /\ ~r_entries[2].seen

\* C36: a refresh removes no entry: every video_id the Feed had before
\* refresh_subscription_by_channel_id is a video_id of the Feed after it,
\* and the list is at least as long as it was.
C36_NeverRemoves ==
    r_op \in {"refresh", "refresh_none"} =>
        /\ \A i \in 1..Len(r_prev) :
                \E j \in 1..Len(r_entries) : r_entries[j].video_id = r_prev[i].video_id
        /\ Len(r_entries) >= Len(r_prev)
C36_Witness ==
    /\ r_op = "refresh"
    /\ Len(r_prev) = 2
    /\ Len(r_entries) = 3
    /\ r_prev[1].video_id \in RemoteIds(r_remote)
    /\ r_prev[2].video_id \notin RemoteIds(r_remote)

(***************************************************************************)
(* SpecDb: one thread works on the JsonDatabase that get_database gave it  *)
(* for a file that did not exist, one operation after the other.  An       *)
(* operation is a whole call, the save() inside add and new included.  The *)
(* process may be terminated inside a save(); the next process then        *)
(* begins with get_database on the file that save() left.                  *)
(***************************************************************************)
MaxRows == 2
MaxCache == 1

TitleCache(video_id, title) ==
    [cls |-> "TitleCache", video_id |-> video_id, title |-> title]

\* the rows the thread adds
DbRows ==
    { Feed("A", "a", <<>>), Feed("A", "b", <<>>), Feed("B", "b", <<>>),
      TitleCache("v1", "t1") }
DbKinds == {"Feed", "TitleCache"}
\* the rows of a table the model lets it grow to
DbBound(name) == IF name = "Feed" THEN MaxRows ELSE MaxCache

\* the keyword arguments filter_by of the reading calls and of remove
NoFilter == [k \in {} |-> ""]
DbFilters(name) ==
    IF name = "Feed"
    THEN {NoFilter}
         \cup { [channel_id |-> c] : c \in {"A", "B"} }
         \cup { [title |-> t] : t \in {"a", "b"} }
         \cup { [channel_id |-> c, title |-> t] : c \in {"A", "B"}, t \in {"a", "b"} }
    ELSE {NoFilter} \cup { [video_id |-> v] : v \in {"v1", "v2"} }

\* JsonDatabase.save run to its end: the file holds the document of _data
save(data) == FileOf(Encode(data))

\* JsonDatabase.remove with all() in the place of any(): a row stays when
\* every filter key differs
removeKeepsAllDiffer(data, name, filter_by) ==
    (name :> SelectSeq(Table(data, name),
                       LAMBDA x : \A k \in DOMAIN filter_by : x[k] # filter_by[k])) @@ data

\* JsonDatabase.remove: the table becomes the list of the rows x with
\* any(getattr(x, k) != v for k, v in filter_by.items())
remove(data, name, filter_by) ==
    (name :> SelectSeq(Table(data, name),
                       LAMBDA x : \E k \in DOMAIN filter_by : x[k] # filter_by[k])) @@ data

DbIdleOp == [name |-> "idle"]
NoLog == [valid |-> FALSE, rows |-> <<>>]

DbInit ==
    /\ ReconIdle
    /\ BatchIdle
    /\ AddIdle
    /\ LockIdle
    /\ FlowIdle
    /\ d_data = EmptyData
    /\ d_prev = EmptyData
    /\ d_file = file
    /\ d_op = DbIdleOp
    /\ d_log = [valid |-> TRUE, rows |-> <<>>]

dbFrame == << reconVars, addVars, lockVars, flowVars, disk0, h_docs, h_sync, c_pc, c_feeds, c_data,
              procVars, o_pc, o_data >>

\* add without its save()
D_AddNoSave ==
    /\ d_op = DbIdleOp
    /\ \E row \in DbRows :
        /\ Len(Table(d_data, row.cls)) < DbBound(row.cls)
        /\ d_data' = AppendRow(d_data, row)
        /\ d_op' = [name |-> "add", row |-> row, raised |-> FALSE]
        /\ d_log' = [d_log EXCEPT !.rows = IF d_log.valid THEN Append(@, row) ELSE @]
    /\ d_prev' = d_data
    /\ d_file' = file
    /\ UNCHANGED << file, dbFrame >>

\* database.add(row): the append and the save()
D_Add ==
    /\ d_op = DbIdleOp
    /\ \E row \in DbRows :
        /\ Len(Table(d_data, row.cls)) < DbBound(row.cls)
        /\ d_data' = AppendRow(d_data, row)
        /\ d_op' = [name |-> "add", row |-> row, raised |-> FALSE]
        /\ d_log' = [d_log EXCEPT !.rows = IF d_log.valid THEN Append(@, row) ELSE @]
    /\ file' = save(d_data')
    /\ d_prev' = d_data
    /\ d_file' = file
    /\ UNCHANGED dbFrame

\* database.new()
D_New ==
    /\ d_op = DbIdleOp
    /\ d_data' = EmptyData
    /\ file' = save(d_data')
    /\ d_op' = [name |-> "new"]
    /\ d_log' = [valid |-> TRUE, rows |-> <<>>]
    /\ d_prev' = d_data
    /\ d_file' = file
    /\ UNCHANGED dbFrame

\* database.connect(), also the one get_database calls in a process begun
\* after the one before was terminated: _load raises nothing for a file
\* that is no JSON document
D_Connect ==
    /\ d_op.name \in {"idle", "killed"}
    /\ d_data' = IF LoadRaises(file) THEN d_data ELSE _load(file)
    /\ d_op' = [name |-> "connect", saw |-> file.phase, raised |-> LoadRaises(file)]
    /\ d_log' = NoLog
    /\ d_prev' = d_data
    /\ d_file' = file
    /\ UNCHANGED << file, dbFrame >>

\* database.save() called by the thread itself
D_Save ==
    /\ d_op = DbIdleOp
    /\ file' = save(d_data)
    /\ d_op' = [name |-> "save"]
    /\ d_prev' = d_data
    /\ d_file' = file
    /\ UNCHANGED << d_data, d_log, dbFrame >>

\* the process is terminated inside a save(), after open(filepath, "w");
\* the next process begins with JsonDatabase({}, filepath)
D_SaveKilled ==
    /\ d_op = DbIdleOp
    /\ file' \in {TruncatedFile, PartialFile}
    /\ d_data' = EmptyData
    /\ d_op' = [name |-> "killed"]
    /\ d_log' = NoLog
    /\ d_prev' = d_data
    /\ d_file' = file
    /\ UNCHANGED dbFrame

\* remove that ends with self.save(), as add and new do
D_RemoveSaves ==
    /\ d_op = DbIdleOp
    /\ \E name \in DbKinds : \E filter_by \in DbFilters(name) :
        /\ d_data' = remove(d_data, name, filter_by)
        /\ d_op' = [name |-> "remove", kind |-> name, filter_by |-> filter_by,
                    raised |-> FALSE]
    /\ file' = save(d_data')
    /\ d_log' = NoLog
    /\ d_prev' = d_data
    /\ d_file' = file
    /\ UNCHANGED dbFrame

\* database.remove(table_class, **filter_by)
D_Remove ==
    /\ d_op = DbIdleOp
    /\ \E name \in DbKinds : \E filter_by \in DbFilters(name) :
        /\ d_data' = remove(d_data, name, filter_by)
        /\ d_op' = [name |-> "remove", kind |-> name, filter_by |-> filter_by,
                    raised |-> FALSE]
    /\ d_log' = NoLog
    /\ d_prev' = d_data
    /\ d_file' = file
    /\ UNCHANGED << file, dbFrame >>

\* database.fetch(table_class, **filter_by)
D_Fetch ==
    /\ d_op = DbIdleOp
    /\ \E name \in DbKinds : \E filter_by \in DbFilters(name) :
        d_op' = [name |-> "fetch", kind |-> name, filter_by |-> filter_by,
                 result |-> fetch(d_data, name, filter_by)]
    /\ d_prev' = d_data
    /\ d_file' = file
    /\ UNCHANGED << file, d_data, d_log, dbFrame >>

\* database.fetch_one_or_none(table_class, **filter_by)
D_FetchOneOrNone ==
    /\ d_op = DbIdleOp
    /\ \E name \in DbKinds : \E filter_by \in DbFilters(name) :
        d_op' = [name |-> "fetch_one_or_none", kind |-> name, filter_by |-> filter_by,
                 result |-> fetch_one_or_none(d_data, name, filter_by)]
    /\ d_prev' = d_data
    /\ d_file' = file
    /\ UNCHANGED << file, d_data, d_log, dbFrame >>

\* the caller goes on to its next call
D_Return ==
    /\ d_op.name \notin {"idle", "killed"}
    /\ d_op' = DbIdleOp
    /\ d_prev' = d_data
    /\ d_file' = file
    /\ UNCHANGED << file, d_data, d_log, dbFrame >>

DbNext ==
    \/ D_Add
    \/ D_New
    \/ D_Connect
    \/ D_Save
    \/ D_SaveKilled
    \/ D_Remove
    \/ D_Fetch
    \/ D_FetchOneOrNone
    \/ D_Return

SpecDb == DbInit /\ [][DbNext]_vars

(***************************************************************************)
(* Properties of the batch refresh and its caller (Spec).                  *)
(***************************************************************************)
\* the thread is the only one the batch started on its Feed
OnlyThreadOfRow(t) ==
    \A u \in 1..Len(p_threads) : p_threads[u].row = p_threads[t].row => u = t

\* the entries of the Feed of thread t in the store data hold every video id
\* its remote feed delivered, and are the merge of the entries the file had
\* with that feed when no other thread worked on the Feed
ShowsMerged(data, t) ==
    LET entries == EntriesOf(data, p_threads[t].row)
        remote == p_threads[t].remote.entries
    IN  /\ \A i \in 1..Len(remote) :
                \E j \in 1..Len(entries) : entries[j].video_id = remote[i].id
        /\ OnlyThreadOfRow(t) =>
                entries = refresh_subscription_by_channel_id(
                              EntriesOf(_load(disk0), p_threads[t].row), p_threads[t].remote)

\* C19: when the batch refresh has returned normally, the store file holds
\* each refreshed channel whose remote feed had entries with the merged
\* entries; the store instance the caller loaded before the refresh keeps
\* the content it loaded until its connect(), and has the file's content,
\* the merged entries included, after it.
C19_Visibility ==
    c_pc \in {"returned", "connected"} =>
        /\ file.phase = "full"
        /\ \A t \in 1..Len(p_threads) :
                p_threads[t].remote.entries # <<>> => ShowsMerged(_load(file), t)
        /\ c_pc = "returned" => c_data = _load(disk0)
        /\ c_pc = "connected" =>
                /\ c_data = _load(file)
                /\ \A t \in 1..Len(p_threads) :
                        p_threads[t].remote.entries # <<>> => ShowsMerged(c_data, t)
C19_Witness ==
    /\ c_pc = "connected"
    /\ \E t \in 1..Len(p_threads) :
        /\ Len(p_threads[t].remote.entries) = 2
        /\ OnlyThreadOfRow(t)
        /\ Len(EntriesOf(_load(disk0), p_threads[t].row)) = 0
        /\ Len(EntriesOf(c_data, p_threads[t].row)) = 2

\* C20: when a user interrupt has reached the refresh process, wherever its
\* main thread was, the process is ended and the store file holds what the
\* last save() that ran to its end wrote: the content the batch found, or
\* the content of the batch's own save if that was completed.
C20_Cancellation ==
    p_cause = "KeyboardInterrupt" =>
        /\ file.phase = "full"
        /\ \/ file = disk0
           \/ p_saves >= 1 /\ file = FileOf(Encode(p_data))

\* C22: whatever list of channels the batch refresh was given, no two of
\* its threads that are running at the same time work on the same Feed.
C22_DisjointWorkers ==
    \A t, u \in 1..Len(p_threads) :
        (t # u /\ ~Finished(p_threads[t]) /\ ~Finished(p_threads[u]))
        => p_threads[t].row # p_threads[u].row

(***************************************************************************)
(* SpecLock: two threads of one process each call one operation of the     *)
(* same JsonDatabase: add, remove, fetch_all or save.  add, remove and     *)
(* fetch_all run inside "with self.__lock"; save has no such statement,    *)
(* whether add calls it or the thread does.                                *)
(***************************************************************************)
LockThreads == {1, 2}
LockOps ==
    { [name |-> "add", row |-> row] : row \in AddRows }
    \cup { [name |-> "remove", kind |-> "Feed", filter_by |-> filter_by] :
            filter_by \in {NoFilter, [channel_id |-> "C"]} }
    \cup { [name |-> "fetch_all", kind |-> "Feed"], [name |-> "save"] }

LockInit ==
    /\ ReconIdle
    /\ DbIdle
    /\ FlowIdle
    /\ \E data \in AddStores :
        /\ s_data = data
        /\ s_data0 = data
        /\ file = save(data)
    /\ disk0 = file
    /\ h_docs = {}
    /\ h_sync = [caller |-> file, process |-> NotLoaded]
    /\ c_pc = "idle"
    /\ c_feeds = <<>>
    /\ c_data = EmptyData
    /\ p_pc = "none"
    /\ p_exit = "none"
    /\ p_cause = "none"
    /\ p_data = EmptyData
    /\ p_i = 0
    /\ p_threads = <<>>
    /\ p_saves = 0
    /\ o_pc = "idle"
    /\ o_data = EmptyData
    /\ s_lock = 0
    /\ a_row = <<>>
    /\ a_pc = <<>>
    /\ l_op \in [LockThreads -> LockOps]
    /\ l_pc = [t \in LockThreads |-> "call"]

lockFrame == << reconVars, dbVars, flowVars, disk0, h_docs, h_sync, c_pc, c_feeds, c_data,
               procVars, o_pc, o_data, s_data0, a_row, a_pc, l_op >>

\* with self.__lock: of every operation but save
L_Acquire(t) ==
    /\ l_pc[t] = "call"
    /\ l_op[t].name \in {"add", "remove", "fetch_all", "fetch", "fetch_one_or_none",
                          "connect", "new"}
    /\ LockFree(s_lock)
    /\ s_lock' = t
    /\ l_pc' = [l_pc EXCEPT ![t] = IF l_op[t].name = "add" THEN "append"
                                   ELSE IF l_op[t].name = "remove" THEN "assign"
                                   ELSE IF l_op[t].name = "fetch_one_or_none" THEN "read_one"
                                   ELSE IF l_op[t].name = "connect" THEN "load"
                                   ELSE IF l_op[t].name = "new" THEN "clear"
                                   ELSE "read"]
    /\ UNCHANGED << file, s_data, lockFrame >>

\* add: self._data.setdefault(name, []).append(row)
L_Append(t) ==
    /\ l_pc[t] = "append"
    /\ s_data' = AppendRow(s_data, l_op[t].row)
    /\ l_pc' = [l_pc EXCEPT ![t] = "save"]
    /\ UNCHANGED << file, s_lock, lockFrame >>

\* remove: self._data[name] = [...]
L_Assign(t) ==
    /\ l_pc[t] = "assign"
    /\ s_data' = remove(s_data, l_op[t].kind, l_op[t].filter_by)
    /\ l_pc' = [l_pc EXCEPT ![t] = "release"]
    /\ UNCHANGED << file, s_lock, lockFrame >>

\* fetch_all: return self._data.get(name, []); fetch: return results
L_Read(t) ==
    /\ l_pc[t] = "read"
    /\ l_pc' = [l_pc EXCEPT ![t] = "release"]
    /\ UNCHANGED << file, s_data, s_lock, lockFrame >>

\* a save() that begins with "with self.__lock", as the other operations do
L_SaveOpenLocked(t) ==
    /\ \/ l_pc[t] = "save"
       \/ l_pc[t] = "call" /\ l_op[t].name = "save"
    /\ LockFree(s_lock)
    /\ file' = TruncatedFile
    /\ l_pc' = [l_pc EXCEPT ![t] = "dump"]
    /\ UNCHANGED << s_data, s_lock, lockFrame >>

\* save, called by add, by new or by the thread: open(self.filepath, "w")
L_SaveOpen(t) ==
    /\ \/ l_pc[t] = "save"
       \/ l_pc[t] = "call" /\ l_op[t].name = "save"
    /\ file' = TruncatedFile
    /\ l_pc' = [l_pc EXCEPT ![t] = "dump"]
    /\ UNCHANGED << s_data, s_lock, lockFrame >>

\* save: json.dump(self, ...) and flush
L_SaveDump(t) ==
    /\ l_pc[t] = "dump"
    /\ file' = save(s_data)
    /\ l_pc' = [l_pc EXCEPT ![t] = IF l_op[t].name \in {"add", "new"} THEN "release"
                                   ELSE "returned"]
    /\ UNCHANGED << s_data, s_lock, lockFrame >>

\* the end of the with statement
L_Release(t) ==
    /\ l_pc[t] = "release"
    /\ s_lock' = 0
    /\ l_pc' = [l_pc EXCEPT ![t] = "returned"]
    /\ UNCHANGED << file, s_data, lockFrame >>

LockNext ==
    \E t \in LockThreads :
        \/ L_Acquire(t)
        \/ L_Append(t)
        \/ L_Assign(t)
        \/ L_Read(t)
        \/ L_SaveOpen(t)
        \/ L_SaveDump(t)
        \/ L_Release(t)

SpecLock == LockInit /\ [][LockNext]_vars

\* the thread is inside an operation of the store
InOperation(t) == l_pc[t] \notin {"call", "returned"}

\* C18: the operations of a store instance that read or change its tables,
\* the serialization of save() included, exclude each other: no two threads
\* are inside such an operation at once.
C18_LockDiscipline ==
    \A t, u \in LockThreads : (t # u /\ InOperation(t)) => ~InOperation(u)

(***************************************************************************)
(* SpecCalls: the threads of one process each call one operation of the    *)
(* same JsonDatabase, any of add, new, remove, fetch, fetch_one_or_none,   *)
(* fetch_all, connect and save.  An operation may raise: fetch_one_or_none *)
(* on two matches, save when the file cannot be opened.  The interpreter   *)
(* switches between the threads, so that every thread that can go on does. *)
(***************************************************************************)
\* the threads that call the store
MaxThreads == 2
CallThreads == 1..MaxThreads

CallFilter == [channel_id |-> "A"]
CallOps ==
    { [name |-> "add", row |-> Feed("A", "t", <<>>)],
      [name |-> "new"],
      [name |-> "remove", kind |-> "Feed", filter_by |-> CallFilter],
      [name |-> "fetch", kind |-> "Feed", filter_by |-> NoFilter],
      [name |-> "fetch_one_or_none", kind |-> "Feed", filter_by |-> CallFilter],
      [name |-> "fetch_all", kind |-> "Feed"],
      [name |-> "connect"],
      [name |-> "save"] }
CallStores == { EmptyData, AppendRow(EmptyData, Feed("A", "a", <<>>)) }

CallsInit ==
    /\ ReconIdle
    /\ DbIdle
    /\ FlowIdle
    /\ \E data \in CallStores :
        /\ s_data = data
        /\ s_data0 = data
        /\ file = save(data)
    /\ disk0 = file
    /\ h_docs = {}
    /\ h_sync = [caller |-> file, process |-> NotLoaded]
    /\ c_pc = "idle"
    /\ c_feeds = <<>>
    /\ c_data = EmptyData
    /\ p_pc = "none"
    /\ p_exit = "none"
    /\ p_cause = "none"
    /\ p_data = EmptyData
    /\ p_i = 0
    /\ p_threads = <<>>
    /\ p_saves = 0
    /\ o_pc = "idle"
    /\ o_data = EmptyData
    /\ s_lock = 0
    /\ a_row = <<>>
    /\ a_pc = <<>>
    /\ l_op \in [CallThreads -> CallOps]
    /\ l_pc = [t \in CallThreads |-> "call"]

\* fetch_one_or_none: return None or the row, or raise DatabaseError
L_ReadOne(t) ==
    /\ l_pc[t] = "read_one"
    /\ l_pc' = [l_pc EXCEPT ![t] =
                    IF fetch_one_or_none(s_data, l_op[t].kind, l_op[t].filter_by).raise
                    THEN "unwind" ELSE "release"]
    /\ UNCHANGED << file, s_data, s_lock, lockFrame >>

\* connect: self._load()
L_Load(t) ==
    /\ l_pc[t] = "load"
    /\ IF LoadRaises(file)
       THEN /\ l_pc' = [l_pc EXCEPT ![t] = "unwind"]
            /\ UNCHANGED s_data
       ELSE /\ l_pc' = [l_pc EXCEPT ![t] = "release"]
            /\ s_data' = _load(file)
    /\ UNCHANGED << file, s_lock, lockFrame >>

\* new: self._data = {}
L_Clear(t) ==
    /\ l_pc[t] = "clear"
    /\ s_data' = EmptyData
    /\ l_pc' = [l_pc EXCEPT ![t] = "save"]
    /\ UNCHANGED << file, s_lock, lockFrame >>

\* save: self._filepath.open("w") raises OSError; inside add or new the
\* exception goes through their with statement
L_SaveRaise(t) ==
    /\ \/ l_pc[t] = "save"
       \/ l_pc[t] = "call" /\ l_op[t].name = "save"
    /\ l_pc' = [l_pc EXCEPT ![t] = IF l_op[t].name \in {"add", "new"} THEN "unwind"
                                   ELSE "raised"]
    /\ UNCHANGED << file, s_data, s_lock, lockFrame >>

\* the end of the with statement when an exception leaves it: __exit__
\* releases the lock and the exception goes on to the caller
L_Unwind(t) ==
    /\ l_pc[t] = "unwind"
    /\ s_lock' = 0
    /\ l_pc' = [l_pc EXCEPT ![t] = "raised"]
    /\ UNCHANGED << file, s_data, lockFrame >>

\* one step of thread t that the thread takes when it runs
CallStep(t) ==
    \/ L_Acquire(t)
    \/ L_Append(t)
    \/ L_Assign(t)
    \/ L_Read(t)
    \/ L_ReadOne(t)
    \/ L_Load(t)
    \/ L_Clear(t)
    \/ L_SaveOpen(t)
    \/ L_SaveDump(t)
    \/ L_Release(t)
    \/ L_Unwind(t)

CallsNext == \E t \in CallThreads : CallStep(t) \/ L_SaveRaise(t)

\* a thread that can take a step takes one; that open() fails is not
\* something a thread can be relied on to do
SpecCalls ==
    /\ CallsInit
    /\ [][CallsNext]_vars
    /\ \A t \in CallThreads : WF_vars(CallStep(t))

\* the call of thread t is over: it returned or raised
CallOver(t) == l_pc[t] \in {"returned", "raised"}

\* C40: whatever operations the threads call on one store instance, add and
\* new with their save() inside the lock included, every call comes to its
\* end, by a return or by an exception, and the lock is free then.
C40_NoDeadlock ==
    <>[]((\A t \in DOMAIN l_pc : CallOver(t)) /\ LockFree(s_lock))
C40_Witness ==
    /\ \A t \in DOMAIN l_pc : CallOver(t)
    /\ LockFree(s_lock)
    /\ \E t, u \in DOMAIN l_pc :
        /\ l_op[t].name = "add"
        /\ l_pc[t] = "returned"
        /\ l_op[u].name = "fetch_one_or_none"
        /\ l_pc[u] = "raised"

(***************************************************************************)
(* Properties of the store operations (SpecDb).                            *)
(***************************************************************************)
\* C11: connect() on a store file whose bytes are no JSON document fails
\* with an error to its caller; it does not go on with an empty store.
C11_CorruptStoreError ==
    (d_op.name = "connect" /\ d_op.saw # "full") => d_op.raised

\* C12: add of a Feed whose channel_id a Feed of the store already has fails
\* with an error and leaves the table as it was; add of a Feed with a new
\* channel_id appends it.
C12_DuplicateKey ==
    (d_op.name = "add" /\ d_op.row.cls = "Feed") =>
        LET before == Table(d_prev, "Feed")
        IN  IF \E i \in 1..Len(before) : before[i].channel_id = d_op.row.channel_id
            THEN d_op.raised /\ Table(d_data, "Feed") = before
            ELSE ~d_op.raised /\ Table(d_data, "Feed") = Append(before, d_op.row)

\* the places of the rows of a table whose fields equal every filter key
Hits(rows, filter_by) ==
    { i \in 1..Len(rows) : \A k \in DOMAIN filter_by : rows[i][k] = filter_by[k] }

\* C13: fetch_one_or_none gives the row when exactly one row matches, None
\* without an error when none does, an error when two or more do, and leaves
\* the store as it was.
C13_FetchOneOrNone ==
    d_op.name = "fetch_one_or_none" =>
        LET rows == Table(d_data, d_op.kind)
            hits == Hits(rows, d_op.filter_by)
        IN  /\ Cardinality(hits) = 0 => d_op.result = [raise |-> FALSE, row |-> 0]
            /\ Cardinality(hits) = 1 => ~d_op.result.raise /\ d_op.result.row \in hits
            /\ Cardinality(hits) >= 2 => d_op.result.raise
            /\ d_data = d_prev
            /\ file = d_file
C13_Witness ==
    /\ d_op.name = "fetch_one_or_none"
    /\ d_op.result.raise
    /\ Cardinality(DOMAIN d_op.filter_by) = 1

\* C14: fetch gives exactly the rows of the kind whose fields equal every
\* filter key, in the order of the table; all rows for an empty filter; the
\* empty list when nothing matches or the table was never used.
C14_Fetch ==
    d_op.name = "fetch" =>
        LET rows == Table(d_data, d_op.kind)
            hits == Hits(rows, d_op.filter_by)
            res == d_op.result
        IN  /\ \A j \in 1..Len(res) : res[j] \in hits
            /\ \A i \in hits : \E j \in 1..Len(res) : res[j] = i
            /\ \A j, k \in 1..Len(res) : j < k => res[j] < res[k]
            /\ DOMAIN d_op.filter_by = {} => Len(res) = Len(rows)
            /\ d_op.kind \notin DOMAIN d_data => res = <<>>
C14_Witness ==
    /\ d_op.name = "fetch"
    /\ Cardinality(DOMAIN d_op.filter_by) = 2
    /\ Len(Table(d_data, d_op.kind)) = 2
    /\ d_op.result = << 2 >>
    /\ Table(d_data, d_op.kind)[1].channel_id = d_op.filter_by.channel_id

\* C15: remove deletes exactly the rows fetch gives for the same kind and
\* filter: fetch then gives nothing, the other rows stay in their order, the
\* tables of the other kinds stay as they were, and nothing is raised when
\* no row matches.
C15_Remove ==
    d_op.name = "remove" =>
        LET before == Table(d_prev, d_op.kind)
            gone == fetch(d_prev, d_op.kind, d_op.filter_by)
            kept == SelectSeq([i \in 1..Len(before) |-> i],
                              LAMBDA i : \A j \in 1..Len(gone) : gone[j] # i)
        IN  /\ fetch(d_data, d_op.kind, d_op.filter_by) = <<>>
            /\ Table(d_data, d_op.kind) = [j \in 1..Len(kept) |-> before[kept[j]]]
            /\ \A other \in DbKinds \ {d_op.kind} :
                    Table(d_data, other) = Table(d_prev, other)
            /\ ~d_op.raised
C15_Witness ==
    /\ d_op.name = "remove"
    /\ Cardinality(DOMAIN d_op.filter_by) = 2
    /\ Len(Table(d_prev, d_op.kind)) = 2
    /\ Len(Table(d_data, d_op.kind)) = 1
    /\ Table(d_data, d_op.kind)[1].channel_id = d_op.filter_by.channel_id
    /\ Table(d_data, "TitleCache") # <<>>

\* the field that names a row of a kind
KeyOf(row) ==
    IF row.cls = "Feed" THEN [channel_id |-> row.channel_id]
    ELSE [video_id |-> row.video_id]

\* C16: after any sequence of add calls on a new store fetch_all(kind)
\* gives every added row of the kind in the order of the calls, and
\* fetch_one_or_none on the key of the row just added, when no other row
\* has it, gives a row equal to it.
C16_InsertionOrder ==
    /\ d_log.valid =>
            \A kind \in DbKinds :
                fetch_all(d_data, kind) = SelectSeq(d_log.rows, LAMBDA r : r.cls = kind)
    /\ (d_op.name = "add"
            /\ Cardinality(Hits(Table(d_data, d_op.row.cls), KeyOf(d_op.row))) = 1) =>
            LET found == fetch_one_or_none(d_data, d_op.row.cls, KeyOf(d_op.row))
            IN  /\ ~found.raise
                /\ found.row # 0
                /\ Table(d_data, d_op.row.cls)[found.row] = d_op.row
C16_Witness ==
    /\ d_op.name = "add"
    /\ d_log.valid
    /\ Len(d_log.rows) = 3
    /\ d_log.rows[2].cls = "TitleCache"
    /\ d_log.rows[1] # d_log.rows[3]
    /\ Cardinality(Hits(Table(d_data, "Feed"), KeyOf(d_op.row))) = 1

\* C17: when add or new returns the store file decodes to the _data of the
\* instance: a store loaded from the file afterwards gives the added row
\* from fetch_all, and gives nothing after new.
C17_PersistImmediately ==
    /\ d_op.name = "add" =>
            /\ file.phase = "full"
            /\ _load(file) = d_data
            /\ InTable(fetch_all(_load(file), d_op.row.cls), d_op.row)
    /\ d_op.name = "new" =>
            /\ file.phase = "full"
            /\ _load(file) = d_data
            /\ \A kind \in DbKinds : fetch_all(_load(file), kind) = <<>>
C17_Witness ==
    /\ d_op.name = "add"
    /\ d_file.phase = "full"
    /\ Len(Table(_load(d_file), "Feed")) = 2
    /\ Len(Table(d_prev, "Feed")) = 0
    /\ Len(Table(_load(file), "Feed")) = 1

\* C39: remove changes the store in memory only: after it the file is as
\* it was, and a store loaded from it has every row that was removed; so do
\* the reading calls and connect leave the file.  After save, add or new
\* the file holds the store of the instance, without the rows removed
\* from it.
C39_RemoveInMemory ==
    /\ d_op.name = "remove" =>
            /\ file = d_file
            /\ \A i \in Hits(Table(d_prev, d_op.kind), d_op.filter_by) :
                    \E j \in Hits(Table(_load(file), d_op.kind), d_op.filter_by) :
                        _load(file)[d_op.kind][j] = d_prev[d_op.kind][i]
    /\ d_op.name \in {"fetch", "fetch_one_or_none", "connect"} => file = d_file
    /\ d_op.name \in {"save", "add", "new"} => (file.phase = "full" /\ _load(file) = d_data)
C39_Witness ==
    /\ d_op.name = "remove"
    /\ Len(Table(d_prev, d_op.kind)) = 2
    /\ Len(Table(d_data, d_op.kind)) = 1
    /\ Table(_load(file), d_op.kind) = Table(d_prev, d_op.kind)

(***************************************************************************)
(* SpecFlow: the interactive process, one menu choice after the other, on  *)
(* a store file that get_database created.  Each function loads the file   *)
(* with get_database.  A batch refresh is the call of                      *)
(* refresh_subscriptions_by_channel_id with the outcomes its process has   *)
(* under Spec: exit code 0 after one save of the merged store, or          *)
(* ProcessError with the file as it was or as an ended save() left it.     *)
(***************************************************************************)
MaxTries == 2
MaxFlowFetch == 1

FlowChannels == {"A", "B"}
FlowTitles == {"a", "b"}
\* what a channel's RSS address may deliver to a batch
FlowRemotes == { RssResult(s) : s \in SeqsUpTo(BatchRemoteEntries, MaxFlowFetch) }

\* the stores a clean batch on the channels ids may leave: each Feed of the
\* store with such a channel_id has its entries merged with a remote feed
Merges(data, ids) ==
    IF "Feed" \notin DOMAIN data THEN { data }
    ELSE LET feeds == data["Feed"]
         IN  { [data EXCEPT !["Feed"] =
                    [i \in 1..Len(feeds) |->
                        IF feeds[i].channel_id \in ids
                        THEN [feeds[i] EXCEPT !.entries =
                                refresh_subscription_by_channel_id(@, remote[i])]
                        ELSE feeds[i]]] :
                 remote \in [1..Len(feeds) -> FlowRemotes] }

\* refresh_subscriptions_by_channel_id(feeds) on the store file f: whether
\* it raises ProcessError, and the store file it leaves
refresh_subscriptions_by_channel_id(f, ids) ==
    { [raise |-> FALSE, file |-> save(data)] : data \in Merges(_load(f), ids) }
    \cup { [raise |-> TRUE, file |-> g] : g \in {f, TruncatedFile, PartialFile} }

\* lines 88-98 without the fetch_one_or_none: the Feed is always added
AddAlways(f, channel_id, channel_title) ==
    [raise |-> FALSE,
     file |-> save(AppendRow(_load(f), Feed(channel_id, channel_title, <<>>)))]

\* lines 88-98 without the else branch: a Feed that is there stays as it is
AddIfAbsent(f, channel_id, channel_title) ==
    LET database == _load(f)
        feed == fetch_one_or_none(database, "Feed", [channel_id |-> channel_id])
        new_feed == Feed(channel_id, channel_title, <<>>)
    IN  IF feed.raise THEN [raise |-> TRUE, file |-> f]
        ELSE IF feed.row = 0
        THEN [raise |-> FALSE, file |-> save(AppendRow(database, new_feed))]
        ELSE [raise |-> FALSE, file |-> save(database)]

\* add_subscription_to_database, lines 88-98: get_database, add the new
\* Feed or update the Feed of that channel_id with it, save
AddOrUpdate(f, channel_id, channel_title) ==
    LET database == _load(f)
        feed == fetch_one_or_none(database, "Feed", [channel_id |-> channel_id])
        new_feed == Feed(channel_id, channel_title, <<>>)
    IN  IF feed.raise THEN [raise |-> TRUE, file |-> f]
        ELSE IF feed.row = 0
        THEN [raise |-> FALSE, file |-> save(AppendRow(database, new_feed))]
        ELSE [raise |-> FALSE,
              file |-> save([database EXCEPT !["Feed"][feed.row] = update(@, new_feed)])]

\* add_subscription_to_database: the exception that leaves it, if any, and
\* the store file it leaves
add_subscription_to_database(f, channel_id, channel_title, refresh) ==
    LET stored == AddOrUpdate(f, channel_id, channel_title)
    IN  IF stored.raise THEN { [error |-> "DatabaseError", file |-> f] }
        ELSE IF ~refresh THEN { [error |-> "none", file |-> stored.file] }
        ELSE { [error |-> IF o.raise THEN "ProcessError" ELSE "none", file |-> o.file] :
                 o \in refresh_subscriptions_by_channel_id(stored.file, {channel_id}) }

\* do_channel_unsubscribe without its database.save(): the remove stays in
\* the memory of the store instance
UnsubscribeWithoutSave(f, channel_id) == f

\* do_channel_unsubscribe: get_database, remove, save
do_channel_unsubscribe(f, channel_id) ==
    save(remove(_load(f), "Feed", [channel_id |-> channel_id]))

FlowInit ==
    /\ ReconIdle
    /\ BatchIdle
    /\ AddIdle
    /\ DbIdle
    /\ LockIdle
    /\ FlowIdle

flowFrame == << reconVars, addVars, dbVars, lockVars, disk0, h_docs, h_sync, c_pc, c_feeds, c_data,
                procVars, o_pc, o_data >>

\* do_refresh_subscriptions: get_database and fetch_all(Feed)
F_RefreshBegin ==
    /\ f_pc = "menu"
    /\ f_flow' = [name |-> "do_refresh_subscriptions",
                  feeds |-> { feed.channel_id : feed \in
                                { Table(_load(file), "Feed")[i] :
                                    i \in 1..Len(Table(_load(file), "Feed")) } }]
    /\ f_pc' = "call"
    /\ f_tries' = 0
    /\ UNCHANGED << file, flowFrame >>

\* its try statement: the refresh returns, or ProcessError is caught
F_RefreshCall ==
    /\ f_pc = "call"
    /\ f_flow.name = "do_refresh_subscriptions"
    /\ \E o \in refresh_subscriptions_by_channel_id(file, f_flow.feeds) :
        /\ file' = o.file
        /\ f_pc' = IF o.raise THEN "ask" ELSE "returned"
    /\ f_tries' = f_tries + 1
    /\ UNCHANGED << f_flow, flowFrame >>

\* yes_no_query("Something went wrong. Try again?")
F_Ask ==
    /\ f_pc = "ask"
    /\ \E yes \in BOOLEAN :
        /\ yes => f_tries < MaxTries
        /\ f_pc' = IF yes THEN "call" ELSE "returned"
    /\ UNCHANGED << file, f_flow, f_tries, flowFrame >>

\* do_channel_subscribe: get_database and the fetch that finds the channel
\* subscribed already or not
F_SubscribeBegin ==
    /\ f_pc = "menu"
    /\ \E channel_id \in FlowChannels, title \in FlowTitles :
        /\ f_flow' = [name |-> "do_channel_subscribe", channel_id |-> channel_id,
                      title |-> title]
        /\ f_pc' = IF fetch(_load(file), "Feed", [channel_id |-> channel_id]) # <<>>
                   THEN "returned" ELSE "call"
    /\ f_tries' = 0
    /\ UNCHANGED << file, flowFrame >>

\* its try statement: add_subscription_to_database(..., refresh=True) returns,
\* or raises an exception that is no requests ConnectionError and leaves
\* do_channel_subscribe
F_SubscribeCall ==
    /\ f_pc = "call"
    /\ f_flow.name = "do_channel_subscribe"
    /\ \E o \in add_subscription_to_database(file, f_flow.channel_id, f_flow.title, TRUE) :
        /\ file' = o.file
        /\ f_pc' = IF o.error = "none" THEN "returned" ELSE "escaped"
    /\ f_tries' = f_tries + 1
    /\ UNCHANGED << f_flow, flowFrame >>

\* add_subscription_to_database called by itself
F_AddSubscription ==
    /\ f_pc = "menu"
    /\ \E channel_id \in FlowChannels, title \in FlowTitles, refresh \in BOOLEAN :
        /\ f_flow' = [name |-> "add_subscription_to_database", channel_id |-> channel_id,
                      title |-> title, refresh |-> refresh, had |-> _load(file)]
        /\ \E o \in add_subscription_to_database(file, channel_id, title, refresh) :
            /\ file' = o.file
            /\ f_pc' = IF o.error = "none" THEN "returned" ELSE "raised"
    /\ f_tries' = 0
    /\ UNCHANGED flowFrame

\* do_channel_unsubscribe
F_Unsubscribe ==
    /\ f_pc = "menu"
    /\ \E channel_id \in FlowChannels :
        /\ f_flow' = [name |-> "do_channel_unsubscribe", channel_id |-> channel_id,
                      had |-> _load(file)]
        /\ file' = do_channel_unsubscribe(file, channel_id)
    /\ f_pc' = "returned"
    /\ f_tries' = 0
    /\ UNCHANGED flowFrame

\* back at the menu, or the program started again
F_Menu ==
    /\ f_pc \in {"returned", "escaped", "raised"}
    /\ f_pc' = "menu"
    /\ f_flow' = [name |-> "none"]
    /\ f_tries' = 0
    /\ UNCHANGED << file, flowFrame >>

FlowNext ==
    \/ F_RefreshBegin
    \/ F_RefreshCall
    \/ F_Ask
    \/ F_SubscribeBegin
    \/ F_SubscribeCall
    \/ F_AddSubscription
    \/ F_Unsubscribe
    \/ F_Menu

SpecFlow == FlowInit /\ [][FlowNext]_vars

(***************************************************************************)
(* Properties of the interactive functions (SpecFlow).                     *)
(***************************************************************************)
\* C21: a ProcessError of the batch refresh never leaves the function that
\* called the refresh, do_refresh_subscriptions or do_channel_subscribe: the
\* function asks the user whether to try again.
C21_RetryOrAbandon == f_pc # "escaped"

\* the Feeds of a store with the channel_id
FeedsOf(data, channel_id) == Hits(Table(data, "Feed"), [channel_id |-> channel_id])

\* C24: after any series of add_subscription_to_database and
\* do_channel_unsubscribe calls the persisted store holds at most one Feed
\* of each channel_id, and exactly one Feed of an id that was subscribed
\* when the store had none.
C24_ChannelUnique ==
    /\ \A channel_id \in FlowChannels : Cardinality(FeedsOf(_load(file), channel_id)) <= 1
    /\ (/\ f_pc = "returned"
        /\ f_flow.name = "add_subscription_to_database"
        /\ FeedsOf(f_flow.had, f_flow.channel_id) = {})
        => Cardinality(FeedsOf(_load(file), f_flow.channel_id)) = 1
    /\ (f_pc = "returned" /\ f_flow.name = "do_channel_subscribe")
        => Cardinality(FeedsOf(_load(file), f_flow.channel_id)) = 1
C24_Witness ==
    /\ f_pc = "returned"
    /\ f_flow.name = "add_subscription_to_database"
    /\ FeedsOf(f_flow.had, f_flow.channel_id) = {}
    /\ Len(Table(f_flow.had, "Feed")) = 1
    /\ f_flow.had["Feed"][1].entries # <<>>
    /\ Len(Table(_load(file), "Feed")) = 2

\* the Feeds of a table whose channel_id is not the given one, in their order
FeedsBut(rows, channel_id) == SelectSeq(rows, LAMBDA x : x.channel_id # channel_id)

\* C31: do_channel_unsubscribe(channel_id) returns without an error, also
\* when the id is not subscribed, and the persisted store then holds the
\* Feeds it held before with another channel_id, each with its title and
\* its entries as they were and in the same order, and no Feed of that id.
C31_UnsubscribeCascade ==
    (f_pc = "returned" /\ f_flow.name = "do_channel_unsubscribe")
        => /\ file.phase = "full"
           /\ Table(_load(file), "Feed")
                = FeedsBut(Table(f_flow.had, "Feed"), f_flow.channel_id)
           /\ FeedsOf(_load(file), f_flow.channel_id) = {}
C31_Witness ==
    /\ f_pc = "returned"
    /\ f_flow.name = "do_channel_unsubscribe"
    /\ Len(Table(f_flow.had, "Feed")) = 2
    /\ \A i \in 1..2 : f_flow.had["Feed"][i].entries # <<>>
    /\ FeedsOf(f_flow.had, f_flow.channel_id) # {}
    /\ Len(Table(_load(file), "Feed")) = 1
    /\ _load(file)["Feed"][1].entries # <<>>

(***************************************************************************)
(* More properties of the batch refresh (Spec).                            *)
(***************************************************************************)
\* no channel of the argument feeds has a Feed in the store the batch found
NoneSubscribed ==
    \A i \in 1..Len(c_feeds) : FeedsOf(_load(disk0), c_feeds[i]) = {}

\* C25: a batch refresh of an empty list, or of channels none of which is in
\* the store, starts no thread, and when no SIGINT reaches its process it
\* exits with code 0, the caller returns, and the store file holds what it
\* held.
C25_EmptyBatch ==
    NoneSubscribed =>
        /\ p_threads = <<>>
        /\ (p_pc = "exited" /\ p_cause # "KeyboardInterrupt") =>
                /\ p_exit = "0"
                /\ c_pc # "ProcessError"
                /\ file = disk0
                /\ Len(Table(p_data, "Feed")) = Len(Table(_load(disk0), "Feed"))
C25_Witness ==
    /\ c_feeds = << "Z" >>
    /\ c_pc = "returned"
    /\ p_saves = 1
    /\ EntriesOf(_load(file), 2) # <<>>

\* every thread the batch started on the Feed of thread t kept an exception
AllFailedOnRow(t) ==
    \A u \in 1..Len(p_threads) :
        p_threads[u].row = p_threads[t].row => p_threads[u].pc = "failed"

\* C26: a thread whose fetch raised does not stop the other threads: while
\* the process lives each of them can take its next step, and when the
\* process has ended because of the exception every thread has run to its
\* end, the Feed of a thread that did not fail holds the merge of its remote
\* feed and the Feed of the failed thread holds the entries it had.
C26_SiblingProgress ==
    /\ \A t \in 1..Len(p_threads) :
            (Alive /\ ~Finished(p_threads[t])
                /\ \E u \in 1..Len(p_threads) : p_threads[u].pc = "failed")
            => ENABLED (T_FetchRaise(t) \/ T_Fetch(t) \/ T_Search(t) \/ T_Apply(t))
    /\ (p_pc = "exited" /\ p_cause = "thread.exc") =>
            \A t \in 1..Len(p_threads) :
                /\ Finished(p_threads[t])
                /\ (p_threads[t].pc = "done" /\ OnlyThreadOfRow(t)) =>
                        EntriesOf(p_data, p_threads[t].row)
                            = refresh_subscription_by_channel_id(
                                  EntriesOf(_load(disk0), p_threads[t].row),
                                  p_threads[t].remote)
                /\ AllFailedOnRow(t) =>
                        EntriesOf(p_data, p_threads[t].row)
                            = EntriesOf(_load(disk0), p_threads[t].row)
C26_Witness ==
    /\ p_pc = "exited"
    /\ p_cause = "thread.exc"
    /\ Len(p_threads) = 2
    /\ p_threads[1].pc = "failed"
    /\ p_threads[2].pc = "done"
    /\ p_threads[1].row # p_threads[2].row
    /\ Len(p_threads[2].remote.entries) = 2
    /\ EntriesOf(p_data, p_threads[2].row) # EntriesOf(_load(disk0), p_threads[2].row)

\* the threads of the batch that caught an exception
FailedThreads == { t \in 1..Len(p_threads) : p_threads[t].pc = "failed" }

\* C35: in a refresh process that no SIGINT reaches, when a thread raised,
\* join raises its exception in the main thread at the first such thread,
\* the later threads are not joined and save() is not called: the file is
\* as the batch found it, the exit code is not 0 and the caller raises
\* ProcessError.  When no thread raised the process saves its store once
\* and exits with code 0, and the caller returns.
C35_WorkerFailureAbortsSave ==
    (p_pc = "exited" /\ p_cause # "KeyboardInterrupt") =>
        IF FailedThreads # {}
        THEN /\ p_cause = "thread.exc"
             /\ p_i \in FailedThreads
             /\ \A t \in FailedThreads : p_i <= t
             /\ p_saves = 0
             /\ file = disk0
             /\ p_exit # "0"
             /\ c_pc \in {"join", "ProcessError"}
        ELSE /\ p_saves = 1
             /\ file = FileOf(Encode(p_data))
             /\ p_exit = "0"
             /\ c_pc \in {"join", "returned", "connected"}
C35_Witness ==
    /\ c_pc = "ProcessError"
    /\ p_cause = "thread.exc"
    /\ Len(p_threads) = 2
    /\ p_threads[1].pc = "failed"
    /\ p_threads[2].pc = "done"
    /\ p_threads[2].remote.entries # <<>>
    /\ EntriesOf(p_data, p_threads[2].row) # EntriesOf(_load(file), p_threads[2].row)

(***************************************************************************)
(* SpecMenu: the batch refresh of Spec, and a user interrupt that reaches  *)
(* the calling process while it waits in process.join().  The interrupt    *)
(* is a KeyboardInterrupt, which "except Exception" does not catch: it     *)
(* leaves refresh_subscriptions_by_channel_id with the process running,    *)
(* do_method_menu catches it and the user chooses again.                   *)
(***************************************************************************)
\* KeyboardInterrupt in process.join()
C_Interrupt ==
    /\ c_pc = "join"
    /\ c_pc' = "KeyboardInterrupt"
    /\ UNCHANGED << notBatch, c_data, file, disk0, h_docs, h_sync, c_feeds, procVars, o_pc,
                    o_data >>

\* the next choice is do_channel_unsubscribe: get_database and remove
C_UnsubscribeRemove ==
    /\ c_pc = "KeyboardInterrupt"
    /\ \E channel_id \in FlowChannels :
        c_data' = remove(_load(file), "Feed", [channel_id |-> channel_id])
    /\ h_sync' = [h_sync EXCEPT !.caller = file]
    /\ c_pc' = "unsubscribing"
    /\ UNCHANGED << notBatch, file, disk0, h_docs, c_feeds, procVars, o_pc, o_data >>

\* do_channel_unsubscribe: database.save()
C_UnsubscribeSave ==
    /\ c_pc = "unsubscribing"
    /\ file' = save(c_data)
    /\ h_sync' = [h_sync EXCEPT !.caller = file']
    /\ c_pc' = "unsubscribed"
    /\ UNCHANGED << notBatch, c_data, disk0, h_docs, c_feeds, procVars, o_pc, o_data >>

MenuNext ==
    \/ Next
    \/ C_Interrupt
    \/ C_UnsubscribeRemove
    \/ C_UnsubscribeSave

SpecMenu == Init /\ [][MenuNext]_vars

\* C23: from the start of the refresh process to its end the calling process
\* changes nothing in the store and does not save it, also when an
\* interrupt has ended its wait.
C23_NoMutationDuringBatch ==
    c_pc \in {"unsubscribing", "unsubscribed"} => p_pc = "exited"

\* C37: when a store instance is about to be saved, the store file is as
\* the instance last loaded or saved it: when the refresh process opens the
\* file in save() it holds what get_database loaded, and so it does when
\* do_channel_unsubscribe saves the instance it loaded, so that neither
\* writes over what the other has persisted since.
C37_NoLostUpdate ==
    /\ p_pc = "save" => file = h_sync.process
    /\ c_pc = "unsubscribing" => file = h_sync.caller

(***************************************************************************)
(* SpecDecode: connect() on a store file that another program wrote: a     *)
(* JSON document of tables whose objects have any tag or none.             *)
(***************************************************************************)
Tagged(tag, fields) == ("__dataclass__" :> tag) @@ fields

\* the objects of such a document
ForeignObjects ==
    { Tagged("Feed", [channel_id |-> "A", title |-> "a", entries |-> <<>>]),
      Tagged("Feed", [channel_id |-> "A", title |-> "a", entries |->
                        << Tagged("Entry", [video_id |-> "v1", seen |-> TRUE]) >>]),
      Tagged("Feed", [channel_id |-> "A"]),
      Tagged("Channel", [channel_id |-> "A", title |-> "a", entries |-> <<>>]),
      Tagged("DatabaseError", NoFilter),
      Tagged("DatabaseError", [title |-> "a"]),
      Tagged("JsonDatabase", NoFilter),
      Tagged("json", NoFilter),
      [channel_id |-> "A", title |-> "a"] }

ForeignDocs == { [Feed |-> rows] : rows \in SeqsUpTo(ForeignObjects, 2) }

DecodeInit ==
    /\ ReconIdle
    /\ AddIdle
    /\ LockIdle
    /\ FlowIdle
    /\ \E doc \in ForeignDocs : file = FileOf(doc)
    /\ disk0 = file
    /\ h_docs = {}
    /\ h_sync = [caller |-> file, process |-> NotLoaded]
    /\ c_pc = "idle"
    /\ c_feeds = <<>>
    /\ c_data = EmptyData
    /\ p_pc = "none"
    /\ p_exit = "none"
    /\ p_cause = "none"
    /\ p_data = EmptyData
    /\ p_i = 0
    /\ p_threads = <<>>
    /\ p_saves = 0
    /\ o_pc = "idle"
    /\ o_data = EmptyData
    /\ d_data = EmptyData
    /\ d_prev = EmptyData
    /\ d_file = file
    /\ d_op = DbIdleOp
    /\ d_log = NoLog

DecodeNext == D_Connect \/ D_Return

SpecDecode == DecodeInit /\ [][DecodeNext]_vars

\* the tags of the objects of a document, nested ones included
RECURSIVE TagsOf(_)
TagsOf(obj) ==
    (IF "__dataclass__" \in DOMAIN obj THEN { obj["__dataclass__"] } ELSE {})
    \cup UNION { UNION { TagsOf(obj[f][i]) : i \in 1..Len(obj[f]) } :
                    f \in DOMAIN obj \cap ListFields }
DocTags(doc) ==
    UNION { UNION { TagsOf(doc[name][i]) : i \in 1..Len(doc[name]) } : name \in DOMAIN doc }

\* C34: connect() on a store file with an object whose tag names no record
\* kind (Feed, FeedEntry, TitleCache) raises an error to its caller: the
\* object is not returned in a table and not dropped.
C34_UnknownKindRejected ==
    (d_op.name = "connect" /\ DocTags(d_file.doc) \ DOMAIN Dataclasses # {}) => d_op.raised

(***************************************************************************)
(* SpecStale: the batch refresh of Spec, called by a process whose Feed    *)
(* objects differ from the store file: before the call it marked an entry  *)
(* as read or merged a remote feed into a Feed, in memory, without a       *)
(* save().  The Feeds it passes to refresh_subscriptions_by_channel_id are *)
(* these objects; the process reads feed.channel_id of each.  No SIGINT     *)
(* reaches the process and no other instance reads the file.               *)
(***************************************************************************)
\* the entry that only the caller's copy holds
StaleRemote ==
    RssResult(<< [id |-> "v3", link |-> "http://l2", title |-> "t2",
                  media_thumbnail |-> << [url |-> "http://u2"] >>] >>)

\* MarkEntryAsReadKey._mark_read on an entry of the caller's Feed
C_MarkRead ==
    /\ c_pc = "idle"
    /\ c_data = _load(file)
    /\ \E row \in 1..Len(Table(c_data, "Feed")) :
        \E i \in 1..Len(EntriesOf(c_data, row)) :
            /\ ~EntriesOf(c_data, row)[i].seen
            /\ c_data' = [c_data EXCEPT !["Feed"][row].entries[i].seen = TRUE]
    /\ UNCHANGED << notBatch, file, disk0, h_docs, h_sync, c_pc, c_feeds, procVars, o_pc, o_data >>

\* refresh_subscription_by_channel_id on a Feed of the caller, in memory
C_MergeInMemory ==
    /\ c_pc = "idle"
    /\ c_data = _load(file)
    /\ \E row \in 1..Len(Table(c_data, "Feed")) :
        c_data' = [c_data EXCEPT !["Feed"][row].entries =
                        refresh_subscription_by_channel_id(@, StaleRemote)]
    /\ UNCHANGED << notBatch, file, disk0, h_docs, h_sync, c_pc, c_feeds, procVars, o_pc, o_data >>

\* the batch that no SIGINT reaches, and the caller's changes before it
StaleNext ==
    \/ C_MarkRead
    \/ C_MergeInMemory
    \/ C_Start
    \/ C_JoinClean
    \/ C_JoinError
    \/ C_Connect
    \/ P_GetDatabase
    \/ P_StartThread
    \/ P_StartedAll
    \/ P_Join
    \/ P_JoinRaise
    \/ P_JoinedAll
    \/ P_SaveOpen
    \/ P_SaveDump
    \/ P_Exit
    \/ P_ExitRaise
    \/ \E t \in 1..Len(p_threads) : T_FetchRaise(t)
    \/ \E t \in 1..Len(p_threads) : T_Fetch(t)
    \/ \E t \in 1..Len(p_threads) : T_Search(t)
    \/ \E t \in 1..Len(p_threads) : T_Apply(t)

SpecStale == Init /\ [][StaleNext]_vars

\* the entry is one the file had in that Feed when the batch began, or one
\* that a thread of the batch on that Feed was delivered, with the seen of
\* the file's entry of that video_id (FALSE when the file had none)
FromFileOrRemote(entry, row) ==
    LET had == EntriesOf(_load(disk0), row)
    IN  \/ \E j \in 1..Len(had) : had[j] = entry
        \/ /\ \E t \in 1..Len(p_threads) :
                /\ p_threads[t].row = row
                /\ entry.video_id \in RemoteIds(p_threads[t].remote)
            /\ entry.seen = (\E j \in 1..Len(had) :
                                had[j].video_id = entry.video_id /\ had[j].seen)

\* C32: the refresh process works on the Feeds it loads from the store file
\* when it starts, whatever the Feed objects of its caller hold: every
\* entry of the persisted store is an entry the file had or one delivered to
\* the batch, with the seen of the file, and after a clean batch each Feed
\* is the file's Feed merged with what its one thread was delivered.
C32_FreshLoad ==
    /\ (p_pc = "start_threads" /\ p_threads = <<>>) => p_data = _load(disk0)
    /\ file.phase = "full" =>
            /\ Len(Table(_load(file), "Feed")) = Len(Table(_load(disk0), "Feed"))
            /\ \A row \in 1..Len(Table(_load(file), "Feed")) :
                    \A i \in 1..Len(EntriesOf(_load(file), row)) :
                        FromFileOrRemote(EntriesOf(_load(file), row)[i], row)
    /\ c_pc = "returned" =>
            \A row \in 1..Len(Table(_load(file), "Feed")) :
                /\ (\A t \in 1..Len(p_threads) : p_threads[t].row # row)
                        => _load(file)["Feed"][row] = _load(disk0)["Feed"][row]
                /\ \A t \in 1..Len(p_threads) :
                        (p_threads[t].row = row /\ OnlyThreadOfRow(t)) =>
                            EntriesOf(_load(file), row) =
                                refresh_subscription_by_channel_id(
                                    EntriesOf(_load(disk0), row), p_threads[t].remote)
C32_Witness ==
    /\ c_pc = "returned"
    /\ \E t \in 1..Len(p_threads) :
        /\ OnlyThreadOfRow(t)
        /\ p_threads[t].remote.entries # <<>>
        /\ c_feeds[1] = c_data["Feed"][p_threads[t].row].channel_id
        /\ \E i \in 1..Len(EntriesOf(c_data, p_threads[t].row)) :
                EntriesOf(c_data, p_threads[t].row)[i].video_id = "v3"
        /\ EntriesOf(_load(file), p_threads[t].row) # EntriesOf(_load(disk0), p_threads[t].row)
        /\ \A i \in 1..Len(EntriesOf(_load(file), p_threads[t].row)) :
                EntriesOf(_load(file), p_threads[t].row)[i].video_id # "v3"

NoChoice == [op |-> "none"]

\* do_interactive_browse_subscriptions: get_database, fetch_all(Feed)
B_Browse ==
    /\ f_pc = "menu"
    /\ IF Table(_load(file), "Feed") = <<>>
       THEN /\ f_pc' = "returned"
            /\ f_flow' = [name |-> "do_interactive_browse_subscriptions"]
       ELSE /\ f_pc' = "channels"
            /\ f_flow' = [name |-> "do_interactive_browse_subscriptions",
                          database |-> _load(file), row |-> 0, last |-> NoChoice]
    /\ UNCHANGED << file, f_tries, flowFrame >>

\* do_select_video_from_subscription up to its do_method_menu:
\* fetch_one_or_none, database.save()
B_Select ==
    /\ f_pc = "channels"
    /\ \E i \in 1..Len(f_flow.database["Feed"]) :
        LET feed == fetch_one_or_none(f_flow.database, "Feed",
                        [channel_id |-> f_flow.database["Feed"][i].channel_id])
        IN  IF feed.raise \/ feed.row = 0
            THEN /\ f_pc' = "escaped"
                 /\ UNCHANGED << file, f_flow >>
            ELSE /\ file' = save(f_flow.database)
                 /\ f_flow' = [f_flow EXCEPT !.row = feed.row, !.last = NoChoice]
                 /\ f_pc' = "videos"
    /\ UNCHANGED << f_tries, flowFrame >>

\* the key of MarkEntryAsReadKey in the video menu: _mark_read(video)
B_MarkRead ==
    /\ f_pc = "videos"
    /\ \E i \in 1..Len(EntriesOf(f_flow.database, f_flow.row)) :
        f_flow' = [f_flow EXCEPT
                     !.database["Feed"][f_flow.row].entries[i].seen = TRUE,
                     !.last = [op |-> "mark", index |-> i, had |-> f_flow.database,
                               file |-> file]]
    /\ UNCHANGED << file, f_pc, f_tries, flowFrame >>

\* do_play_video_from_subscription that assigns the player's result to seen
\* whatever seen was
B_PlayAlways ==
    /\ f_pc = "videos"
    /\ \E i \in 1..Len(EntriesOf(f_flow.database, f_flow.row)), result \in BOOLEAN :
        LET played == [f_flow.database EXCEPT
                         !["Feed"][f_flow.row].entries[i].seen = result]
        IN  /\ f_flow' = [f_flow EXCEPT
                            !.database = played,
                            !.last = [op |-> "play", index |-> i, result |-> result,
                                      had |-> f_flow.database, file |-> file]]
            /\ file' = save(played)
    /\ UNCHANGED << f_pc, f_tries, flowFrame >>

\* do_play_video_from_subscription(database, video): result is what
\* play_video returns
B_Play ==
    /\ f_pc = "videos"
    /\ \E i \in 1..Len(EntriesOf(f_flow.database, f_flow.row)), result \in BOOLEAN :
        LET video == EntriesOf(f_flow.database, f_flow.row)[i]
            played == [f_flow.database EXCEPT
                         !["Feed"][f_flow.row].entries[i].seen = result]
        IN  /\ f_flow' = [f_flow EXCEPT
                            !.database = IF ~video.seen THEN played ELSE @,
                            !.last = [op |-> "play", index |-> i, result |-> result,
                                      had |-> f_flow.database, file |-> file]]
            /\ file' = IF ~video.seen THEN save(played) ELSE file
    /\ UNCHANGED << f_pc, f_tries, flowFrame >>

\* [Go back] in the video menu: do_select_video_from_subscription saves the
\* store and returns to the channel menu
B_Back ==
    /\ f_pc = "videos"
    /\ file' = save(f_flow.database)
    /\ f_flow' = [f_flow EXCEPT !.row = 0, !.last = NoChoice]
    /\ f_pc' = "channels"
    /\ UNCHANGED << f_tries, flowFrame >>

\* [Go back] in the channel menu
B_Return ==
    /\ f_pc = "channels"
    /\ f_pc' = "returned"
    /\ f_flow' = [name |-> "do_interactive_browse_subscriptions"]
    /\ UNCHANGED << file, f_tries, flowFrame >>

BrowseNext ==
    \/ FlowNext
    \/ B_Browse
    \/ B_Select
    \/ B_MarkRead
    \/ B_Play
    \/ B_Back
    \/ B_Return

SpecBrowse == FlowInit /\ [][BrowseNext]_vars

\* the last choice in the video menu was to play a video
Played == f_pc = "videos" /\ f_flow.last.op = "play"

\* C33: do_play_video_from_subscription leaves an entry whose seen is TRUE
\* as it is, whatever the player reports, and saves nothing; an entry whose
\* seen is FALSE gets the player's result as seen and the store is saved.
\* No other entry and no other Feed is changed.
C33_PlayNeverUnsets ==
    Played =>
        LET row == f_flow.row
            i == f_flow.last.index
            was == EntriesOf(f_flow.last.had, row)[i]
            now == EntriesOf(f_flow.database, row)[i]
        IN  /\ was.seen => (now.seen /\ file = f_flow.last.file)
            /\ ~was.seen => /\ now.seen = f_flow.last.result
                            /\ file = FileOf(Encode(f_flow.database))
                            /\ EntriesOf(_load(file), row)[i].seen = f_flow.last.result
            /\ f_flow.database =
                    [f_flow.last.had EXCEPT !["Feed"][row].entries[i].seen = now.seen]
C33_Witness ==
    /\ Played
    /\ EntriesOf(f_flow.last.had, f_flow.row)[f_flow.last.index].seen
    /\ ~f_flow.last.result
    /\ EntriesOf(_load(file), f_flow.row)[f_flow.last.index].seen
    /\ Len(EntriesOf(f_flow.database, f_flow.row)) = 2

(***************************************************************************)
(* SpecLegacy: the reconciliation of the one-file program                  *)
(* src/youtube_rss.py, whose entries are dicts that may have the key       *)
(* "thumbnail file".  One feed, created empty, is refreshed over and over, *)
(* and its thumbnails are fetched in between.                              *)
(***************************************************************************)
\* get_relevant_dict_from_feed_parser_dict of src/youtube_rss.py
LegacyDict(feedparser_dict) ==
    [id |-> feedparser_dict["id"], link |-> feedparser_dict["link"],
     title |-> feedparser_dict["title"],
     thumbnail |-> feedparser_dict["media_thumbnail"][1]["url"], seen |-> FALSE]

\* "thumbnail file" in entry
HasFile(entry) == "thumbnail file" \in DOMAIN entry

\* the body of the outer for loop of refresh_subscription_by_channel_id
LegacyMergeOne(local_feed, entry) ==
    LET filtered_entry == LegacyDict(entry)
    IN  IF \E i \in 1..Len(local_feed) : local_feed[i]["id"] = filtered_entry["id"]
        THEN LET i == CHOOSE i \in 1..Len(local_feed) :
                        /\ local_feed[i]["id"] = filtered_entry["id"]
                        /\ \A j \in 1..(i - 1) : local_feed[j]["id"] # filtered_entry["id"]
                 local_entry == local_feed[i]
                 with_seen == [filtered_entry EXCEPT !.seen = local_entry["seen"]]
                 with_file ==
                    IF /\ with_seen["thumbnail"] = local_entry["thumbnail"]
                       /\ HasFile(with_seen)
                    THEN ("thumbnail file" :> local_entry["thumbnail file"]) @@ with_seen
                    ELSE with_seen
             IN  [local_feed EXCEPT ![i] = with_file]
        ELSE << filtered_entry >> \o local_feed

RECURSIVE LegacyWalk(_, _)
LegacyWalk(local_feed, walk) ==
    IF walk = <<>> THEN local_feed
    ELSE LegacyWalk(LegacyMergeOne(local_feed, Head(walk)), Tail(walk))

\* get_thumbnails_for_feed: an entry without the key gets its thumbnail file
get_thumbnails_for_feed(feed) ==
    [i \in 1..Len(feed) |->
        IF HasFile(feed[i]) THEN feed[i]
        ELSE ("thumbnail file" :> feed[i]["id"]) @@ feed[i]]

LegacyRemotes == { RssResult(s) : s \in SeqsUpTo(RemoteEntries, MaxFetch) }

LegacyInit == ReconInit

\* refresh_subscription_by_channel_id(channel_id, local_feed)
G_Refresh ==
    /\ r_op = "idle"
    /\ \E remote_feed \in LegacyRemotes :
        /\ r_entries' = LegacyWalk(r_entries, reverse(remote_feed.entries))
        /\ r_remote' = remote_feed
    /\ r_prev' = r_entries
    /\ r_op' = "refresh"
    /\ UNCHANGED notRecon

\* get_thumbnails_for_all_subscriptions, after the refresh
G_GetThumbnails ==
    /\ r_op = "refresh"
    /\ r_entries' = get_thumbnails_for_feed(r_entries)
    /\ r_op' = "idle"
    /\ r_prev' = <<>>
    /\ r_remote' = RssResult(<<>>)
    /\ UNCHANGED notRecon

LegacyNext == G_Refresh \/ G_GetThumbnails

SpecLegacy == LegacyInit /\ [][LegacyNext]_vars

====
